---- MODULE Spec2Model ----
(***************************************************************************)
(* Verification model of sisp-sweden/ssn-reporting: the weekly aggregator  *)
(* (src/storage/dataAggregator.js), the snapshot store                     *)
(* (src/storage/fileManager.js), the ingestion run fetchWeekData           *)
(* (src/index.js), the per-repository fetchers (github/commits.js,         *)
(* github/pullRequests.js, github/reviews.js), the backfill loop           *)
(* (cli/backfillManager.js) and the paginated client (github/client.js).   *)
(*                                                                         *)
(* Dates are day numbers of December 2025: ISO week 2025-52 starts on      *)
(* Monday the 22nd.  The modelled week keeps only its first WeekLen days.  *)
(***************************************************************************)
EXTENDS Integers, Sequences, FiniteSets, TLC

\* ------------------------------------------------------------------ bounds
WeekLen == 3
MaxOps == 3
MaxEvents == 2
MaxRuns == 2
MaxItems == 205
MaxWait == 2
MaxValue == 150
MaxWeeks == 3

\* ------------------------------------------------------------------ domains
Users == {"alice", "bob"}
Repos == {"r1", "r2"}
NoRepo == "null"
WeekKey == "2025-52"

getAllDatesInWeek == [i \in 1 .. WeekLen |-> 21 + i]

Range(s) == {s[i] : i \in DOMAIN s}

EmptyMap == [x \in {} |-> 0]

\* ------------------------------------------------------------------ aggregator
ZeroMetrics ==
  [commits |-> 0, prs |-> 0, linesAdded |-> 0, linesDeleted |-> 0,
   reviewsGiven |-> 0, reviewCommentsGiven |-> 0, discussionCommentsGiven |-> 0]

createEmptyWeekStructure(repos, now) ==
  [week |-> WeekKey,
   weekStart |-> getAllDatesInWeek[1],
   weekEnd |-> getAllDatesInWeek[Len(getAllDatesInWeek)],
   generatedAt |-> now,
   repositories |-> repos,
   repositoryMetrics |-> [r \in Range(repos) |-> ZeroMetrics],
   users |-> EmptyMap]

ensureUserExists(data, username) ==
  IF username \in DOMAIN data.users THEN data
  ELSE [data EXCEPT !.users =
          [u \in DOMAIN data.users \cup {username} |->
             IF u = username THEN [daily |-> EmptyMap, weekly |-> ZeroMetrics]
             ELSE data.users[u]]]

ensureDateExists(data, username, date) ==
  LET d1 == ensureUserExists(data, username)
      daily == d1.users[username].daily
  IN IF date \in DOMAIN daily THEN d1
     ELSE [d1 EXCEPT !.users[username].daily =
             [d \in DOMAIN daily \cup {date} |->
                IF d = date THEN ZeroMetrics ELSE daily[d]]]

setMetricsOfRepository(data, repository, metrics) ==
  [data EXCEPT !.repositoryMetrics =
     [r \in DOMAIN data.repositoryMetrics \cup {repository} |->
        IF r = repository THEN metrics ELSE data.repositoryMetrics[r]]]

addMetricsToRepository(data, repository, metrics) ==
  LET rm == data.repositoryMetrics
      cur == IF repository \in DOMAIN rm THEN rm[repository] ELSE ZeroMetrics
      new == [commits |-> cur.commits + metrics.commits,
              prs |-> cur.prs + metrics.prs,
              linesAdded |-> cur.linesAdded + metrics.linesAdded,
              linesDeleted |-> cur.linesDeleted + metrics.linesDeleted,
              reviewsGiven |-> cur.reviewsGiven + metrics.reviewsGiven,
              reviewCommentsGiven |->
                cur.reviewCommentsGiven + metrics.reviewCommentsGiven,
              discussionCommentsGiven |->
                cur.discussionCommentsGiven + metrics.discussionCommentsGiven]
  IN [data EXCEPT !.repositoryMetrics =
        [r \in DOMAIN rm \cup {repository} |->
           IF r = repository THEN new ELSE rm[r]]]

addCommitToData(data, username, date, linesAdded, linesDeleted, repository) ==
  LET d1 == ensureDateExists(data, username, date)
      d2 == [d1 EXCEPT !.users[username].daily[date].commits = @ + 1,
                       !.users[username].daily[date].linesAdded = @ + linesAdded,
                       !.users[username].daily[date].linesDeleted = @ + linesDeleted]
  IN IF repository # NoRepo
     THEN addMetricsToRepository(d2, repository,
            [ZeroMetrics EXCEPT !.commits = 1, !.linesAdded = linesAdded,
                                !.linesDeleted = linesDeleted])
     ELSE d2

addPRToData(data, username, date, repository) ==
  LET d1 == ensureDateExists(data, username, date)
      d2 == [d1 EXCEPT !.users[username].daily[date].prs = @ + 1]
  IN IF repository # NoRepo
     THEN addMetricsToRepository(d2, repository, [ZeroMetrics EXCEPT !.prs = 1])
     ELSE d2

addReviewToData(data, username, date, count, repository) ==
  LET d1 == ensureDateExists(data, username, date)
      d2 == [d1 EXCEPT !.users[username].daily[date].reviewsGiven = @ + count]
  IN IF repository # NoRepo
     THEN addMetricsToRepository(d2, repository,
            [ZeroMetrics EXCEPT !.reviewsGiven = count])
     ELSE d2

addReviewCommentsToData(data, username, date, count, repository) ==
  LET d1 == ensureDateExists(data, username, date)
      d2 == [d1 EXCEPT !.users[username].daily[date].reviewCommentsGiven = @ + count]
  IN IF repository # NoRepo
     THEN addMetricsToRepository(d2, repository,
            [ZeroMetrics EXCEPT !.reviewCommentsGiven = count])
     ELSE d2

addDiscussionCommentsToData(data, username, date, count, repository) ==
  LET d1 == ensureDateExists(data, username, date)
      d2 == [d1 EXCEPT !.users[username].daily[date].discussionCommentsGiven =
                         @ + count]
  IN IF repository # NoRepo
     THEN addMetricsToRepository(d2, repository,
            [ZeroMetrics EXCEPT !.discussionCommentsGiven = count])
     ELSE d2

\* The loop of calculateWeeklyTotals over Object.values(daily): weekly starts
\* from zero and every day is added to it.
RECURSIVE sumDailyValues(_, _, _)
sumDailyValues(daily, dates, weekly) ==
  IF dates = {} THEN weekly
  ELSE LET d == CHOOSE x \in dates : \A y \in dates : x <= y
           dayData == daily[d]
       IN sumDailyValues(daily, dates \ {d},
            [commits |-> weekly.commits + dayData.commits,
             prs |-> weekly.prs + dayData.prs,
             linesAdded |-> weekly.linesAdded + dayData.linesAdded,
             linesDeleted |-> weekly.linesDeleted + dayData.linesDeleted,
             reviewsGiven |-> weekly.reviewsGiven + dayData.reviewsGiven,
             reviewCommentsGiven |->
               weekly.reviewCommentsGiven + dayData.reviewCommentsGiven,
             discussionCommentsGiven |->
               weekly.discussionCommentsGiven + dayData.discussionCommentsGiven])

weeklyOfUserNoReset(userData) ==
  sumDailyValues(userData.daily, DOMAIN userData.daily, userData.weekly)

weeklyOfUser(userData) ==
  sumDailyValues(userData.daily, DOMAIN userData.daily, ZeroMetrics)

calculateWeeklyTotals(data) ==
  [data EXCEPT !.users =
     [u \in DOMAIN data.users |->
        [daily |-> data.users[u].daily,
         weekly |-> weeklyOfUser(data.users[u])]]]

keepDuplicates(s, seen) == s

\* [...new Set([...a, ...b])]: first occurrences, in order.
RECURSIVE uniqueInOrder(_, _)
uniqueInOrder(s, seen) ==
  IF s = <<>> THEN <<>>
  ELSE IF Head(s) \in seen THEN uniqueInOrder(Tail(s), seen)
       ELSE <<Head(s)>> \o uniqueInOrder(Tail(s), seen \cup {Head(s)})

\* The daily map of one user after the merge loop: the dates of the merge
\* base are kept, the other dates of newData are copied.
mergeDailyOverwrite(baseDaily, newDaily) ==
  [d \in DOMAIN baseDaily \cup DOMAIN newDaily |->
     IF d \in DOMAIN newDaily THEN newDaily[d] ELSE baseDaily[d]]

mergeDaily(baseDaily, newDaily) ==
  [d \in DOMAIN baseDaily \cup DOMAIN newDaily |->
     IF d \in DOMAIN baseDaily THEN baseDaily[d] ELSE newDaily[d]]

mergeWithExisting(existingData, newData, now) ==
  LET base == existingData
      users == [u \in DOMAIN base.users \cup DOMAIN newData.users |->
                  IF u \notin DOMAIN newData.users THEN base.users[u]
                  ELSE LET bu == IF u \in DOMAIN base.users THEN base.users[u]
                                 ELSE [daily |-> EmptyMap, weekly |-> ZeroMetrics]
                       IN [daily |-> mergeDaily(bu.daily, newData.users[u].daily),
                           weekly |-> bu.weekly]]
      repositories == IF Len(newData.repositories) > 0
                      THEN uniqueInOrder(base.repositories \o newData.repositories, {})
                      ELSE base.repositories
  IN calculateWeeklyTotals(
       [base EXCEPT !.users = users,
                    !.repositories = repositories,
                    !.generatedAt = now])

getDatesWithoutEntry(data, allDatesInWeek) ==
  SelectSeq(allDatesInWeek,
    LAMBDA date :
      ~ \E u \in DOMAIN data.users : date \in DOMAIN data.users[u].daily)

getMissingDates(data, allDatesInWeek) ==
  SelectSeq(allDatesInWeek,
    LAMBDA date :
      ~ \E u \in DOMAIN data.users :
          /\ date \in DOMAIN data.users[u].daily
          /\ LET dayData == data.users[u].daily[date]
             IN \/ dayData.commits > 0
                \/ dayData.prs > 0
                \/ dayData.linesAdded > 0
                \/ dayData.linesDeleted > 0)

\* ------------------------------------------------------------------ fetch layer
\* The configured repositories, in the order fetchCommitsForDateRange and
\* fetchPRsForDateRange walk them.
repositories == <<"r1", "r2">>

\* A bag (multiset) of provider items: item -> number of copies.
BagAdd(bag, x) ==
  [y \in DOMAIN bag \cup {x} |->
     IF y = x THEN (IF x \in DOMAIN bag THEN bag[x] + 1 ELSE 1) ELSE bag[y]]

BagSize(bag) ==
  LET RECURSIVE total(_)
      total(S) == IF S = {} THEN 0
                  ELSE LET x == CHOOSE y \in S : TRUE
                       IN bag[x] + total(S \ {x})
  IN total(DOMAIN bag)

\* The list the provider answers with: every copy of every selected item.
RECURSIVE BagItems(_, _)
BagItems(bag, S) ==
  IF S = {} THEN <<>>
  ELSE LET x == CHOOSE y \in S : TRUE
       IN [i \in 1 .. bag[x] |-> x] \o BagItems(bag, S \ {x})

\* octokit repos.listCommits(owner, repo, since, until), all pages.
listCommits(provided, repo, since, until) ==
  BagItems(provided,
    {c \in DOMAIN provided :
       c.repository = repo /\ since <= c.date /\ c.date <= until})

\* GitHubClient.getPullRequests: the pull requests of the repository, kept
\* when created on or after since (there is no upper limit).
getPullRequests(provided, repo, since) ==
  BagItems(provided,
    {pr \in DOMAIN provided : pr.repository = repo /\ pr.createdAt >= since})

\* fetchCommitsForRepo: merge commits are skipped; a 404 ends getCommits with
\* nothing collected; any other error is caught and gives [].
fetchCommitsForRepo(outcome, raw) ==
  IF outcome = "ok"
  THEN [threw |-> FALSE,
        items |-> SelectSeq(raw, LAMBDA c : ~ (c.parents > 1))]
  ELSE [threw |-> FALSE, items |-> <<>>]

\* fetchPRsForRepo: same error policy as fetchCommitsForRepo.
fetchPRsForRepo(outcome, raw) ==
  IF outcome = "ok" THEN [threw |-> FALSE, items |-> raw]
  ELSE [threw |-> FALSE, items |-> <<>>]

extractUsername(commit) ==
  IF commit.authorLogin # "null" THEN commit.authorLogin ELSE "unknown"

\* fetchReviewDataForPRs: the reviews, review comments and discussion comments
\* of every pull request of the list, tagged with the repository.
RECURSIVE fetchReviewDataForPRs(_)
fetchReviewDataForPRs(repoPRs) ==
  IF repoPRs = <<>>
  THEN [reviews |-> <<>>, reviewComments |-> <<>>, discussionComments |-> <<>>]
  ELSE LET pr == Head(repoPRs)
           rest == fetchReviewDataForPRs(Tail(repoPRs))
           tag(items) == [i \in DOMAIN items |->
                            [repository |-> pr.repository,
                             user |-> items[i].user, date |-> items[i].date]]
       IN [reviews |-> tag(pr.feedback.reviews) \o rest.reviews,
           reviewComments |-> tag(pr.feedback.reviewComments) \o rest.reviewComments,
           discussionComments |->
             tag(pr.feedback.discussionComments) \o rest.discussionComments]

\* ------------------------------------------------------------------ aggregation of a run
RECURSIVE sumSeq(_)
sumSeq(numbers) ==
  IF numbers = <<>> THEN 0 ELSE Head(numbers) + sumSeq(Tail(numbers))

\* aggregateCommitStats(commits)[username][date]
aggregateCommitStats(commits, username, date) ==
  LET userCommits == SelectSeq(commits,
                        LAMBDA c : extractUsername(c) = username /\ c.date = date)
  IN [commits |-> Len(userCommits),
      linesAdded |-> sumSeq([i \in DOMAIN userCommits |-> userCommits[i].additions]),
      linesDeleted |-> sumSeq([i \in DOMAIN userCommits |-> userCommits[i].deletions])]

\* for (username, date) of aggregateCommitStats: addCommitToData(data, username,
\* date, stats.linesAdded, stats.linesDeleted) -- one call per (user, date).
RECURSIVE addCommitStats(_, _, _)
addCommitStats(data, commits, pairs) ==
  IF pairs = {} THEN data
  ELSE LET p == CHOOSE x \in pairs : TRUE
           stats == aggregateCommitStats(commits, p[1], p[2])
       IN addCommitStats(
            addCommitToData(data, p[1], p[2], stats.linesAdded,
                            stats.linesDeleted, NoRepo),
            commits, pairs \ {p})

\* for (let i = 0; i < prCount; i++) addPRToData(data, username, date)
RECURSIVE addPRTimes(_, _, _, _)
addPRTimes(data, username, date, prCount) ==
  IF prCount = 0 THEN data
  ELSE addPRTimes(addPRToData(data, username, date, NoRepo), username, date,
                  prCount - 1)

RECURSIVE addPRStats(_, _, _)
addPRStats(data, prs, pairs) ==
  IF pairs = {} THEN data
  ELSE LET p == CHOOSE x \in pairs : TRUE
           prCount == Len(SelectSeq(prs,
                        LAMBDA pr : pr.author = p[1] /\ pr.createdAt = p[2]))
       IN addPRStats(addPRTimes(data, p[1], p[2], prCount), prs, pairs \ {p})

\* count*ByUserAndDate(items)[user][date]
countByUserAndDate(items, user, date) ==
  Len(SelectSeq(items, LAMBDA x : x.user = user /\ x.date = date))

RECURSIVE addReviewStats(_, _, _)
addReviewStats(data, reviews, pairs) ==
  IF pairs = {} THEN data
  ELSE LET p == CHOOSE x \in pairs : TRUE
       IN addReviewStats(
            addReviewToData(data, p[1], p[2],
                            countByUserAndDate(reviews, p[1], p[2]), NoRepo),
            reviews, pairs \ {p})

RECURSIVE addReviewCommentStats(_, _, _)
addReviewCommentStats(data, comments, pairs) ==
  IF pairs = {} THEN data
  ELSE LET p == CHOOSE x \in pairs : TRUE
       IN addReviewCommentStats(
            addReviewCommentsToData(data, p[1], p[2],
                            countByUserAndDate(comments, p[1], p[2]), NoRepo),
            comments, pairs \ {p})

RECURSIVE addDiscussionCommentStats(_, _, _)
addDiscussionCommentStats(data, comments, pairs) ==
  IF pairs = {} THEN data
  ELSE LET p == CHOOSE x \in pairs : TRUE
       IN addDiscussionCommentStats(
            addDiscussionCommentsToData(data, p[1], p[2],
                            countByUserAndDate(comments, p[1], p[2]), NoRepo),
            comments, pairs \ {p})

\* for (const item of items) addMetricsToRepository(data, item.repository, m)
RECURSIVE addRepositoryMetrics(_, _)
addRepositoryMetrics(data, items) ==
  IF items = <<>> THEN data
  ELSE addRepositoryMetrics(
         addMetricsToRepository(data, Head(items).repository, Head(items).metrics),
         Tail(items))

withMetrics(items, metrics) ==
  [i \in DOMAIN items |-> [repository |-> items[i].repository, metrics |-> metrics]]

commitPairs(commits) ==
  {<<extractUsername(commits[i]), commits[i].date>> : i \in DOMAIN commits}
prPairs(prs) == {<<prs[i].author, prs[i].createdAt>> : i \in DOMAIN prs}
userDatePairs(items) == {<<items[i].user, items[i].date>> : i \in DOMAIN items}

\* The per-user, per-day part of the aggregation (index.js 598-656 on weekData,
\* 681-723 on newData).
recordUserActivity(data, commits, prs, reviewData) ==
  LET d1 == addCommitStats(data, commits, commitPairs(commits))
      d2 == addPRStats(d1, prs, prPairs(prs))
      d3 == addReviewStats(d2, reviewData.reviews,
                           userDatePairs(reviewData.reviews))
      d4 == addReviewCommentStats(d3, reviewData.reviewComments,
                                  userDatePairs(reviewData.reviewComments))
  IN addDiscussionCommentStats(d4, reviewData.discussionComments,
                               userDatePairs(reviewData.discussionComments))

\* The per-repository part of the aggregation (index.js 611-674).
recordRepositoryActivity(data, commits, prs, reviewData) ==
  LET d1 == addRepositoryMetrics(data,
              [i \in DOMAIN commits |->
                 [repository |-> commits[i].repository,
                  metrics |-> [ZeroMetrics EXCEPT !.commits = 1,
                                 !.linesAdded = commits[i].additions,
                                 !.linesDeleted = commits[i].deletions]]])
      d2 == addRepositoryMetrics(d1,
              withMetrics(prs, [ZeroMetrics EXCEPT !.prs = 1]))
      d3 == addRepositoryMetrics(d2,
              withMetrics(reviewData.reviews,
                          [ZeroMetrics EXCEPT !.reviewsGiven = 1]))
      d4 == addRepositoryMetrics(d3,
              withMetrics(reviewData.reviewComments,
                          [ZeroMetrics EXCEPT !.reviewCommentsGiven = 1]))
  IN addRepositoryMetrics(d4,
              withMetrics(reviewData.discussionComments,
                          [ZeroMetrics EXCEPT !.discussionCommentsGiven = 1]))

\* index.js 587-674: weekData is existingData itself when there is one (the
\* same object), otherwise a new structure listing the configured repositories;
\* the fetched events are recorded into it.
aggregateIntoWeekData(hasExisting, existing, commits, prs, reviewData, now) ==
  LET start == IF hasExisting THEN existing
               ELSE [createEmptyWeekStructure(<<>>, now)
                       EXCEPT !.repositories = repositories]
      d1 == recordUserActivity(start, commits, prs, reviewData)
  IN recordRepositoryActivity(d1, commits, prs, reviewData)

\* index.js 676-728: with existing data a second structure newData is built
\* from the same events and merged into existingData, which by now holds the
\* events recorded above; without existing data the weekly totals are computed.
finalWeekData(hasExisting, existing, commits, prs, reviewData, now) ==
  LET weekData == aggregateIntoWeekData(hasExisting, existing, commits, prs,
                                        reviewData, now)
      newData == recordUserActivity(
                   [createEmptyWeekStructure(<<>>, now)
                      EXCEPT !.repositories = repositories],
                   commits, prs, reviewData)
  IN IF hasExisting THEN mergeWithExisting(weekData, newData, now)
     ELSE calculateWeeklyTotals(weekData)

\* ------------------------------------------------------------------ state
VARIABLES
  wExisting,   \* aggregator workbench: the snapshot playing existingData
  wFresh,      \* aggregator workbench: the snapshot playing newData
  wMerged,     \* aggregator workbench: result of mergeWithExisting
  wPhase,      \* "build" | "calculated" | "merged"
  wRecomputed, \* calculateWeeklyTotals(wExisting) ran after its last record*
  wOps,        \* number of record* calls made so far
  provider,    \* the source-control provider: bags of commits and pull requests
  disk,        \* the week file github-data/2025-52.json
  backup,      \* the backup file github-data/2025-52.json.backup
  pc,          \* position of the fetchWeekData run (or of its caller)
  run,         \* the arguments and local variables of the fetchWeekData run
  obs,         \* what has happened in the current run (history only)
  runs,        \* number of fetchWeekData runs started
  prev,        \* how the previous run ended and the week file it left (history only)
  results,     \* the results object of processBackfill
  listed,      \* getCommits: the commits the provider lists for the request
  commits,     \* getCommits: the local array commits
  page,        \* getCommits: the local variable page
  hasMore,     \* getCommits: the local variable hasMore
  gpc,         \* getCommits: "loop", "returned" or "threw"
  requested,   \* getCommits: the page numbers requested so far (history only)
  method,      \* the paged call under way: "getCommits" or "getPullRequests"
  now,         \* the clock of the client, in seconds
  quota,       \* what checkAndWaitForRateLimit last learned and did
  call,        \* a function of the reports, called alone: its name and arguments
  ret,         \* whether that call has returned, and its return value
  procs,       \* two fetchWeekData runs under way at once, for the same week
  backfill,    \* the arguments and local variables of processBackfill
  heap         \* the objects in memory around a call of mergeWithExisting

wvars == <<wExisting, wFresh, wMerged, wPhase, wRecomputed, wOps>>
rvars == <<provider, disk, backup, pc, run, obs, runs, prev, results>>
gvars == <<listed, commits, page, hasMore, gpc, requested, method, now, quota>>
fvars == <<call, ret>>
cvars == <<procs, backfill, heap>>
vars == <<wExisting, wFresh, wMerged, wPhase, wRecomputed, wOps,
          provider, disk, backup, pc, run, obs, runs, prev, results,
          listed, commits, page, hasMore, gpc, requested, method, now, quota,
          call, ret, procs, backfill, heap>>

NullData == createEmptyWeekStructure(<<>>, 0)

NoReviewData ==
  [reviews |-> <<>>, reviewComments |-> <<>>, discussionComments |-> <<>>]

AbsentFile == [state |-> "absent", data |-> NullData]
PartialFile == [state |-> "partial", data |-> NullData]
JsonFile(data) == [state |-> "json", data |-> data]

NoRun ==
  [caller |-> "none", forceRefresh |-> FALSE, i |-> 1, hasExisting |-> FALSE,
   existingData |-> NullData, missingDates |-> <<>>, commits |-> <<>>,
   prs |-> <<>>, allReviewData |-> NoReviewData, weekData |-> NullData]

NoObs ==
  [failedRepos |-> {}, hardFailure |-> FALSE, atStart |-> AbsentFile,
   preSave |-> AbsentFile, saved |-> FALSE, earlyReturn |-> FALSE,
   threwAt |-> "none"]

NoResults == [successful |-> 0, failed |-> 0, errors |-> <<>>]

RInit ==
  /\ provider = [commits |-> EmptyMap, prs |-> EmptyMap]
  /\ disk = AbsentFile
  /\ backup = AbsentFile
  /\ pc = "idle"
  /\ run = NoRun
  /\ obs = NoObs
  /\ runs = 0
  /\ prev = [ok |-> FALSE, file |-> AbsentFile, oneRepoFailed |-> FALSE]
  /\ results = NoResults

\* processBackfill before it is called; attempted and outcomes list the calls
\* of fetchFunction made so far and how each ended.
NoBackfill ==
  [selectedWeeks |-> <<>>, i |-> 1, pc |-> "idle",
   results |-> [successful |-> 0, failed |-> 0, errors |-> <<>>],
   attempted |-> <<>>, outcomes |-> <<>>]

\* No object allocated, no call of mergeWithExisting made.
NoHeap ==
  [cells |-> <<>>, existingData |-> 0, newData |-> 0, merged |-> 0,
   pc |-> "idle", before |-> <<>>]

CIdle ==
  /\ procs = <<>>
  /\ backfill = NoBackfill
  /\ heap = NoHeap

NoCall == [fn |-> "none"]
NoRet == [done |-> FALSE]

FIdle ==
  /\ call = NoCall
  /\ ret = NoRet

NoQuota ==
  [known |-> FALSE, remaining |-> 0, reset |-> 0, checkedAt |-> 0, slept |-> 0,
   turn |-> 0]

GIdle ==
  /\ listed = <<>>
  /\ commits = <<>>
  /\ page = 1
  /\ hasMore = FALSE
  /\ gpc = "off"
  /\ requested = <<>>
  /\ method = "none"
  /\ now = 0
  /\ quota = NoQuota

WIdle ==
  /\ wExisting = NullData
  /\ wFresh = NullData
  /\ wMerged = NullData
  /\ wPhase = "off"
  /\ wRecomputed = FALSE
  /\ wOps = 0

\* ------------------------------------------------------------------ workbench
\* Snapshots built the way the program builds them: createEmptyWeekStructure,
\* then record* calls, then calculateWeeklyTotals and mergeWithExisting.
RepoLists == {<<>>, <<"r1">>, <<"r1", "r2">>}
LineChoices == {<<3, 1>>}
CountChoices == {1}
RepoArgs == {NoRepo, "r1"}

WInit ==
  /\ wExisting = createEmptyWeekStructure(<<"r1">>, 0)
  /\ wFresh \in {createEmptyWeekStructure(rs, 0) : rs \in RepoLists}
  /\ wMerged = NullData
  /\ wPhase = "build"
  /\ wRecomputed = FALSE
  /\ wOps = 0
  /\ RInit
  /\ GIdle
  /\ FIdle
  /\ CIdle

WApply(target, onExisting, onFresh) ==
  /\ wPhase = "build"
  /\ wOps < MaxOps
  /\ wOps' = wOps + 1
  /\ IF target = "existing"
     THEN wExisting' = onExisting /\ UNCHANGED wFresh
     ELSE wFresh' = onFresh /\ UNCHANGED wExisting
  /\ UNCHANGED <<wMerged, wPhase, wRecomputed>>
  /\ UNCHANGED <<rvars, gvars, fvars, cvars>>

WAddCommit ==
  \E target \in {"existing", "fresh"}, u \in Users,
     d \in Range(getAllDatesInWeek), l \in LineChoices, repo \in RepoArgs :
    WApply(target,
           addCommitToData(wExisting, u, d, l[1], l[2], repo),
           addCommitToData(wFresh, u, d, l[1], l[2], repo))

WAddPR ==
  \E target \in {"existing", "fresh"}, u \in Users,
     d \in Range(getAllDatesInWeek) :
    WApply(target,
           addPRToData(wExisting, u, d, NoRepo),
           addPRToData(wFresh, u, d, NoRepo))

WAddReview ==
  \E target \in {"existing", "fresh"}, u \in Users,
     d \in Range(getAllDatesInWeek), n \in CountChoices :
    WApply(target,
           addReviewToData(wExisting, u, d, n, NoRepo),
           addReviewToData(wFresh, u, d, n, NoRepo))

WAddReviewComments ==
  \E target \in {"existing", "fresh"}, u \in Users,
     d \in Range(getAllDatesInWeek), n \in CountChoices :
    WApply(target,
           addReviewCommentsToData(wExisting, u, d, n, NoRepo),
           addReviewCommentsToData(wFresh, u, d, n, NoRepo))

WAddDiscussionComments ==
  \E target \in {"existing", "fresh"}, u \in Users,
     d \in Range(getAllDatesInWeek), n \in CountChoices :
    WApply(target,
           addDiscussionCommentsToData(wExisting, u, d, n, NoRepo),
           addDiscussionCommentsToData(wFresh, u, d, n, NoRepo))

WCalculate ==
  /\ wPhase = "build"
  /\ wExisting' = calculateWeeklyTotals(wExisting)
  /\ wPhase' = "calculated"
  /\ wRecomputed' = TRUE
  /\ UNCHANGED <<wFresh, wMerged, wOps>>
  /\ UNCHANGED <<rvars, gvars, fvars, cvars>>

WMerge ==
  /\ wPhase \in {"build", "calculated"}
  /\ wMerged' = mergeWithExisting(wExisting, wFresh, 1)
  /\ wPhase' = "merged"
  /\ UNCHANGED <<wExisting, wFresh, wRecomputed, wOps>>
  /\ UNCHANGED <<rvars, gvars, fvars, cvars>>

WNext ==
  \/ WAddCommit
  \/ WAddPR
  \/ WAddReview
  \/ WAddReviewComments
  \/ WAddDiscussionComments
  \/ WCalculate
  \/ WMerge

SpecAggregator == WInit /\ [][WNext]_vars

\* ------------------------------------------------------------------ the provider
\* What the provider may hold.  A commit with two parents is a merge commit.
\* A pull request may be created after the week ends (a week in the past);
\* its feedback is what listReviews, listReviewComments and listComments
\* answer for it.
AfterWeek == getAllDatesInWeek[Len(getAllDatesInWeek)] + 1

Feedback ==
  {NoReviewData,
   [reviews |-> <<[user |-> "bob", date |-> getAllDatesInWeek[2]]>>,
    reviewComments |-> <<[user |-> "bob", date |-> getAllDatesInWeek[2]]>>,
    discussionComments |-> <<[user |-> "alice", date |-> getAllDatesInWeek[3]]>>]}

CommitChoices ==
  [repository : Repos, authorLogin : {"alice"}, date : Range(getAllDatesInWeek),
   additions : {3}, deletions : {1}, parents : {1, 2}]
  \cup {[repository |-> "r2", authorLogin |-> "bob", date |-> getAllDatesInWeek[1],
         additions |-> 3, deletions |-> 1, parents |-> 1]}

PRChoices ==
  [repository : Repos, author : {"alice"},
   createdAt : Range(getAllDatesInWeek) \cup {AfterWeek}, feedback : Feedback]

ProviderSize == BagSize(provider.commits) + BagSize(provider.prs)

PushCommit ==
  /\ pc = "idle" /\ runs = 0 /\ ProviderSize < MaxEvents
  /\ \E c \in CommitChoices :
       provider' = [provider EXCEPT !.commits = BagAdd(@, c)]
  /\ UNCHANGED <<disk, backup, pc, run, obs, runs, prev, results>>
  /\ UNCHANGED <<wvars, gvars, fvars, cvars>>

OpenPR ==
  /\ pc = "idle" /\ runs = 0 /\ ProviderSize < MaxEvents
  /\ \E pr \in PRChoices :
       provider' = [provider EXCEPT !.prs = BagAdd(@, pr)]
  /\ UNCHANGED <<disk, backup, pc, run, obs, runs, prev, results>>
  /\ UNCHANGED <<wvars, gvars, fvars, cvars>>

\* ------------------------------------------------------------------ fetchWeekData
since == run.missingDates[1]
until == run.missingDates[Len(run.missingDates)]

\* index.js 516-545, with loadWeekData's JSON.parse: a week file that does not
\* hold a whole JSON document makes it throw.
StartRun ==
  /\ pc = "idle" /\ runs < MaxRuns
  /\ runs' = runs + 1
  /\ \E caller \in {"cli", "backfill"}, forceRefresh \in BOOLEAN :
       /\ caller = "backfill" => ~ forceRefresh
       /\ LET exists == disk.state # "absent"
              load == exists /\ ~ forceRefresh
              missing == IF load /\ disk.state = "json"
                         THEN getMissingDates(disk.data, getAllDatesInWeek)
                         ELSE getAllDatesInWeek
          IN /\ run' = [NoRun EXCEPT !.caller = caller,
                                      !.forceRefresh = forceRefresh,
                                      !.hasExisting = load /\ disk.state = "json",
                                      !.existingData =
                                         IF load /\ disk.state = "json"
                                         THEN disk.data ELSE NullData,
                                      !.missingDates = missing]
             /\ pc' = IF load /\ disk.state = "partial" THEN "threw"
                      ELSE IF load /\ missing = <<>> THEN "returned"
                      ELSE "fetchCommits"
             /\ obs' = [NoObs EXCEPT !.atStart = disk,
                                      !.earlyReturn = load /\ disk.state = "json"
                                                      /\ missing = <<>>,
                                      !.threwAt =
                                         IF load /\ disk.state = "partial"
                                         THEN "load" ELSE "none"]
  /\ results' = NoResults
  /\ UNCHANGED <<provider, disk, backup, prev>>
  /\ UNCHANGED <<wvars, gvars, fvars, cvars>>

NoteOutcome(repo, outcome) ==
  [obs EXCEPT !.failedRepos = IF outcome = "ok" THEN @ ELSE @ \cup {repo},
              !.hardFailure = @ \/ outcome = "error"]

\* One turn of the loop of fetchCommitsForDateRange (index.js 557-562).
FetchCommits ==
  /\ pc = "fetchCommits"
  /\ \E outcome \in {"ok", "notfound", "error"} :
       LET repo == repositories[run.i]
           res == fetchCommitsForRepo(outcome,
                    listCommits(provider.commits, repo, since, until))
           last == run.i = Len(repositories)
       IN /\ obs' = [NoteOutcome(repo, outcome) EXCEPT
                       !.threwAt = IF res.threw THEN "commits" ELSE @]
          /\ run' = [run EXCEPT !.commits = @ \o res.items,
                                 !.i = IF last THEN 1 ELSE @ + 1]
          /\ pc' = IF res.threw THEN "threw"
                   ELSE IF last THEN "fetchPRs" ELSE "fetchCommits"
  /\ UNCHANGED <<provider, disk, backup, runs, prev, results>>
  /\ UNCHANGED <<wvars, gvars, fvars, cvars>>

\* One turn of the loop of fetchPRsForDateRange (index.js 567).
FetchPRs ==
  /\ pc = "fetchPRs"
  /\ \E outcome \in {"ok", "notfound", "error"} :
       LET repo == repositories[run.i]
           res == fetchPRsForRepo(outcome,
                    getPullRequests(provider.prs, repo, since))
           last == run.i = Len(repositories)
       IN /\ obs' = [NoteOutcome(repo, outcome) EXCEPT
                       !.threwAt = IF res.threw THEN "prs" ELSE @]
          /\ run' = [run EXCEPT !.prs = @ \o res.items,
                                 !.i = IF last THEN 1 ELSE @ + 1]
          /\ pc' = IF res.threw THEN "threw"
                   ELSE IF last THEN "fetchReviews" ELSE "fetchPRs"
  /\ UNCHANGED <<provider, disk, backup, runs, prev, results>>
  /\ UNCHANGED <<wvars, gvars, fvars, cvars>>

\* One turn of the review loop (index.js 574-584): fetchReviewDataForPRs is
\* called for a repository with fetched pull requests; an error of it other
\* than 404 is not caught and ends the run.
FetchReviews ==
  /\ pc = "fetchReviews"
  /\ LET repo == repositories[run.i]
         repoPRs == SelectSeq(run.prs, LAMBDA pr : pr.repository = repo)
         last == run.i = Len(repositories)
     IN \E outcome \in {"ok", "error"} :
          /\ repoPRs = <<>> => outcome = "ok"
          /\ LET reviewData == fetchReviewDataForPRs(repoPRs)
             IN run' = [run EXCEPT
                  !.allReviewData =
                     IF outcome = "ok"
                     THEN [reviews |-> @.reviews \o reviewData.reviews,
                           reviewComments |->
                             @.reviewComments \o reviewData.reviewComments,
                           discussionComments |->
                             @.discussionComments \o reviewData.discussionComments]
                     ELSE @,
                  !.i = IF last THEN 1 ELSE @ + 1]
          /\ pc' = IF outcome = "error" THEN "threw"
                   ELSE IF last THEN "aggregate" ELSE "fetchReviews"
          /\ obs' = [obs EXCEPT !.threwAt = IF outcome = "error" THEN "reviews" ELSE @]
  /\ UNCHANGED <<provider, disk, backup, runs, prev, results>>
  /\ UNCHANGED <<wvars, gvars, fvars, cvars>>

\* index.js 587-728, synchronous.
Aggregate ==
  /\ pc = "aggregate"
  /\ run' = [run EXCEPT
       !.existingData =
          IF run.hasExisting
          THEN aggregateIntoWeekData(TRUE, run.existingData, run.commits, run.prs,
                                     run.allReviewData, runs)
          ELSE @,
       !.weekData = finalWeekData(run.hasExisting, run.existingData, run.commits,
                                  run.prs, run.allReviewData, runs)]
  /\ pc' = "save"
  /\ UNCHANGED <<provider, disk, backup, obs, runs, prev, results>>
  /\ UNCHANGED <<wvars, gvars, fvars, cvars>>

\* saveWeekData, fileManager.js 100-112: the backup copy of an existing week
\* file; when fs.copyFile fails a warning is printed and the save goes on.
SaveBackup ==
  /\ pc = "save"
  /\ \E copied \in BOOLEAN :
       /\ disk.state = "absent" => ~ copied
       /\ backup' = IF copied THEN disk ELSE backup
  /\ obs' = [obs EXCEPT !.preSave = disk]
  /\ pc' = "write"
  /\ UNCHANGED <<provider, disk, run, runs, prev, results>>
  /\ UNCHANGED <<wvars, gvars, fvars, cvars>>

\* saveWeekData, fileManager.js 115-116: fs.writeFile opens the week file for
\* writing, which empties it, or fails to open it.
WriteOpen ==
  /\ pc = "write"
  /\ \E opened \in BOOLEAN :
       /\ disk' = IF opened THEN PartialFile ELSE disk
       /\ pc' = IF opened THEN "writing" ELSE "threw"
       /\ obs' = [obs EXCEPT !.threwAt = IF opened THEN @ ELSE "save"]
  /\ UNCHANGED <<provider, backup, run, runs, prev, results>>
  /\ UNCHANGED <<wvars, gvars, fvars, cvars>>

\* saveWeekData, fileManager.js 116-118: fs.writeFile has written the JSON text.
WriteFinish ==
  /\ pc = "writing"
  /\ disk' = JsonFile(run.weekData)
  /\ obs' = [obs EXCEPT !.saved = TRUE]
  /\ pc' = "postSave"
  /\ UNCHANGED <<provider, backup, run, runs, prev, results>>
  /\ UNCHANGED <<wvars, gvars, fvars, cvars>>

\* index.js 734-765: the AI analysis and the enriched file; an error there is
\* rethrown by fetchWeekData.
PostSave ==
  /\ pc = "postSave"
  /\ \E ok \in BOOLEAN :
       /\ pc' = IF ok THEN "returned" ELSE "threw"
       /\ obs' = [obs EXCEPT !.threwAt = IF ok THEN @ ELSE "postSave"]
  /\ UNCHANGED <<provider, disk, backup, run, runs, prev, results>>
  /\ UNCHANGED <<wvars, gvars, fvars, cvars>>

EndOfRun ==
  [ok |-> pc = "returned" /\ ~ run.forceRefresh /\ obs.failedRepos = {},
   file |-> disk,
   oneRepoFailed |-> pc = "returned" /\ Cardinality(obs.failedRepos) = 1]

\* processBackfill, backfillManager.js 404-415, for selectedWeeks = [2025-52]:
\* the week counts as successful when fetchFunction returns and as failed,
\* with an entry in errors, when it throws.
CountWeek ==
  /\ pc \in {"returned", "threw"} /\ run.caller = "backfill"
  /\ results' = IF pc = "returned"
                THEN [results EXCEPT !.successful = @ + 1]
                ELSE [results EXCEPT !.failed = @ + 1,
                                     !.errors = Append(@, WeekKey)]
  /\ pc' = "counted"
  /\ prev' = EndOfRun
  /\ UNCHANGED <<provider, disk, backup, run, obs, runs>>
  /\ UNCHANGED <<wvars, gvars, fvars, cvars>>

\* processBackfill returns its results (backfillManager.js 423-435).
ReturnResults ==
  /\ pc = "counted"
  /\ pc' = "idle"
  /\ run' = NoRun
  /\ obs' = NoObs
  /\ results' = NoResults
  /\ UNCHANGED <<provider, disk, backup, runs, prev>>
  /\ UNCHANGED <<wvars, gvars, fvars, cvars>>

\* runCLI, index.js 484-497: the direct call of fetchWeekData ends.
EndCLI ==
  /\ pc \in {"returned", "threw"} /\ run.caller = "cli"
  /\ pc' = "idle"
  /\ prev' = EndOfRun
  /\ run' = NoRun
  /\ obs' = NoObs
  /\ UNCHANGED <<provider, disk, backup, runs, results>>
  /\ UNCHANGED <<wvars, gvars, fvars, cvars>>

\* The process is stopped while a run is under way.
Abort ==
  /\ pc \in {"fetchCommits", "fetchPRs", "fetchReviews", "aggregate", "save",
              "write", "writing", "postSave"}
  /\ pc' = "idle"
  /\ prev' = [ok |-> FALSE, file |-> disk, oneRepoFailed |-> FALSE]
  /\ run' = NoRun
  /\ obs' = NoObs
  /\ results' = NoResults
  /\ UNCHANGED <<provider, disk, backup, runs>>
  /\ UNCHANGED <<wvars, gvars, fvars, cvars>>

Next ==
  \/ PushCommit
  \/ OpenPR
  \/ StartRun
  \/ FetchCommits
  \/ FetchPRs
  \/ FetchReviews
  \/ Aggregate
  \/ SaveBackup
  \/ WriteOpen
  \/ WriteFinish
  \/ PostSave
  \/ CountWeek
  \/ ReturnResults
  \/ EndCLI
  \/ Abort

Init == WIdle /\ RInit /\ GIdle /\ FIdle /\ CIdle

Spec == Init /\ [][Next]_vars

\* ------------------------------------------------------------------ GitHubClient.getCommits
per_page == 100

Min(a, b) == IF a < b THEN a ELSE b

\* What repos.listCommits answers for one page of a list that stays the same
\* between the requests.
listCommitsPage(list, pageNumber) ==
  SubSeq(list, (pageNumber - 1) * per_page + 1,
         Min(pageNumber * per_page, Len(list)))

stopAtEmptyPage(data) == Len(data) > 0

moreAfter(data) == Len(data) = per_page

GInit ==
  /\ listed \in {[k \in 1..n |-> k] : n \in 0..MaxItems}
  /\ commits = <<>>
  /\ page = 1
  /\ hasMore = TRUE
  /\ gpc = "loop"
  /\ requested = <<>>
  /\ method = "getCommits"
  /\ now = 0
  /\ quota = NoQuota
  /\ WIdle
  /\ RInit
  /\ FIdle
  /\ CIdle

threshold == 100
buffer == 1

noSleep(waitSeconds) == 0

\* The seconds slept for a wait of waitSeconds (client.js 221).
sleepSeconds(waitSeconds) == waitSeconds + buffer

\* checkAndWaitForRateLimit (client.js 201-228), awaited at the top of every
\* turn of the paging loops.  getRateLimit answers with the remaining budget
\* and the reset time, or fails, and then the check is given up with a warning.
\* A sleep lasts at least the time asked for.
checkAndWaitForRateLimit ==
  /\ gpc = "loop" /\ hasMore
  /\ \E answered \in BOOLEAN, remaining \in {threshold - 1, threshold},
        resetTime \in (now - 1)..(now + MaxWait), late \in {0, 1} :
       LET waitSeconds == resetTime - now
           sleeps == answered /\ remaining < threshold /\ waitSeconds > 0
           slept == IF sleeps THEN sleepSeconds(waitSeconds) + late ELSE 0
       IN /\ ~ sleeps => late = 0
          /\ ~ answered => remaining = threshold /\ resetTime = now
          /\ quota' = IF answered
                      THEN [known |-> TRUE, remaining |-> remaining,
                            reset |-> resetTime, checkedAt |-> now,
                            slept |-> slept, turn |-> Len(requested) + 1]
                      ELSE [NoQuota EXCEPT !.checkedAt = now,
                                           !.turn = Len(requested) + 1]
          /\ now' = now + slept
  /\ gpc' = "request"
  /\ UNCHANGED <<listed, commits, page, hasMore, requested, method>>
  /\ UNCHANGED <<wvars, rvars, fvars, cvars>>

rethrowNotFound(status) == [threw |-> TRUE, hasMore |-> TRUE]

\* The catch block of the paging loops (client.js 261-268 and 322-329): 404
\* ends the loop, any other error is thrown again.
onRequestError(status) ==
  IF status = "notfound" THEN [threw |-> FALSE, hasMore |-> FALSE]
  ELSE [threw |-> TRUE, hasMore |-> TRUE]

Request(outcome) == [page |-> page, outcome |-> outcome, at |-> now, quota |-> quota]

\* One turn of the while loop of getCommits (client.js 243-269), after its
\* rate limit check.
RequestPage ==
  /\ gpc = "request" /\ method = "getCommits"
  /\ \E outcome \in {"ok", "notfound", "error"} :
       LET data == listCommitsPage(listed, page)
           caught == onRequestError(outcome)
       IN /\ requested' = Append(requested, Request(outcome))
          /\ commits' = IF outcome = "ok" THEN commits \o data ELSE commits
          /\ hasMore' = IF outcome = "ok" THEN moreAfter(data) ELSE caught.hasMore
          /\ page' = IF outcome = "ok" THEN page + 1 ELSE page
          /\ gpc' = IF outcome # "ok" /\ caught.threw THEN "threw" ELSE "loop"
  /\ UNCHANGED <<listed, method, now, quota>>
  /\ UNCHANGED <<wvars, rvars, fvars, cvars>>

\* The loop condition is false: return commits (client.js 271), or return
\* pullRequests (client.js 332).
ReturnCommits ==
  /\ gpc = "loop" /\ ~ hasMore
  /\ gpc' = "returned"
  /\ UNCHANGED <<listed, commits, page, hasMore, requested, method, now, quota>>
  /\ UNCHANGED <<wvars, rvars, fvars, cvars>>

GNext == checkAndWaitForRateLimit \/ RequestPage \/ ReturnCommits

SpecGetCommits == GInit /\ [][GNext]_vars

\* Every awaited request is answered, so a turn of the loop that can be taken
\* is taken.
FairGetCommits == SpecGetCommits /\ WF_vars(GNext)

\* ------------------------------------------------------------------ GitHubClient.getPullRequests
\* The since argument of getPullRequests.
sinceDate == getAllDatesInWeek[1]

\* pulls.list answers newest first (sort: created, direction: desc): a list of
\* n pull requests of which the first fresh were created after sinceDate and
\* the others before it.
pullsListed(n, fresh) ==
  [k \in 1..n |-> [number |-> n + 1 - k,
                   createdAt |-> IF k <= fresh THEN sinceDate + 1 ELSE sinceDate - 1]]

FreshChoices == {0, 1, per_page, per_page + 1}

PInit ==
  /\ \/ /\ method = "getCommits"
        /\ listed \in {[k \in 1..n |-> k] : n \in 0..MaxItems}
     \/ /\ method = "getPullRequests"
        /\ listed \in {pullsListed(n, fresh) :
                          n \in 0..MaxItems, fresh \in FreshChoices}
  /\ commits = <<>>
  /\ page = 1
  /\ hasMore = TRUE
  /\ gpc = "loop"
  /\ requested = <<>>
  /\ now = 0
  /\ quota = NoQuota
  /\ WIdle
  /\ RInit
  /\ FIdle
  /\ CIdle

createdSince(data) == SelectSeq(data, LAMBDA pr : pr.createdAt >= sinceDate)

\* client.js 308-320: stop once the last pull request of the page is older
\* than since, or the page is not full.
morePullsAfter(data) ==
  IF Len(data) > 0 /\ data[Len(data)].createdAt < sinceDate THEN FALSE
  ELSE IF Len(data) < per_page THEN FALSE
  ELSE TRUE

\* One turn of the while loop of getPullRequests (client.js 286-330), after
\* its rate limit check.
RequestPullsPage ==
  /\ gpc = "request" /\ method = "getPullRequests"
  /\ \E outcome \in {"ok", "notfound", "error"} :
       LET data == listCommitsPage(listed, page)
           caught == onRequestError(outcome)
       IN /\ requested' = Append(requested, Request(outcome))
          /\ commits' = IF outcome = "ok" THEN commits \o createdSince(data)
                        ELSE commits
          /\ hasMore' = IF outcome = "ok" THEN morePullsAfter(data)
                        ELSE caught.hasMore
          /\ page' = IF outcome = "ok" /\ morePullsAfter(data) THEN page + 1
                     ELSE page
          /\ gpc' = IF outcome # "ok" /\ caught.threw THEN "threw" ELSE "loop"
  /\ UNCHANGED <<listed, method, now, quota>>
  /\ UNCHANGED <<wvars, rvars, fvars, cvars>>

PNext ==
  \/ checkAndWaitForRateLimit
  \/ RequestPage
  \/ RequestPullsPage
  \/ ReturnCommits

SpecPaging == PInit /\ [][PNext]_vars

\* ------------------------------------------------------------------ reports/weekComparator.js
\* Which return statement of calculatePercentageChange is reached
\* (weekComparator.js 13-44).
classifyNewFirst(current, previous) ==
  IF current > 0 /\ previous = 0 THEN "new"
  ELSE IF current = 0 THEN "inactive"
  ELSE "normal"

classify(current, previous) ==
  IF current = 0 /\ previous = 0 THEN "noData"
  ELSE IF current > 0 /\ previous = 0 THEN "new"
  ELSE IF current = 0 /\ previous > 0 THEN "inactive"
  ELSE "normal"

truncateTenths(numerator, denominator, tieUp) == numerator \div denominator

\* Math.round(x * 10) / 10 for x = numerator / denominator / 10, counted in
\* tenths.  Math.round takes the nearest integer.  When the quotient lies
\* exactly half way between two integers the double arithmetic that precedes
\* Math.round decides the side: (31 - 80) / 80 * 100 * 10 is
\* -612.5000000000001 and gives -613, (1 - 16) / 16 * 100 * 10 is -937.5 and
\* gives -937.  tieUp is that side.
roundTenths(numerator, denominator, tieUp) ==
  LET up == (2 * numerator + denominator) \div (2 * denominator)
      tie == (2 * numerator + denominator) % (2 * denominator) = 0
  IN IF tie /\ ~ tieUp THEN up - 1 ELSE up

\* calculatePercentageChange (weekComparator.js 12-57).  change is counted in
\* tenths of a percent; infinite stands for change: Infinity.
calculatePercentageChange(current, previous, tieUp) ==
  LET class == classify(current, previous)
  IN IF class = "noData"
     THEN [change |-> 0, infinite |-> FALSE, delta |-> 0,
           isNew |-> FALSE, isInactive |-> FALSE, isNoData |-> TRUE]
     ELSE IF class = "new"
     THEN [change |-> 0, infinite |-> TRUE, delta |-> current,
           isNew |-> TRUE, isInactive |-> FALSE, isNoData |-> FALSE]
     ELSE IF class = "inactive"
     THEN [change |-> -1000, infinite |-> FALSE, delta |-> 0 - previous,
           isNew |-> FALSE, isInactive |-> TRUE, isNoData |-> FALSE]
     ELSE [change |-> roundTenths((current - previous) * 1000, previous, tieUp),
           infinite |-> FALSE, delta |-> current - previous,
           isNew |-> FALSE, isInactive |-> FALSE, isNoData |-> FALSE]

PercentageCalls ==
  [fn : {"calculatePercentageChange"}, current : 0..MaxValue, previous : 0..MaxValue]

CallPercentageChange ==
  /\ call.fn = "calculatePercentageChange" /\ ~ ret.done
  /\ \E tieUp \in BOOLEAN :
       ret' = [done |-> TRUE,
               value |-> calculatePercentageChange(call.current, call.previous, tieUp)]
  /\ UNCHANGED call
  /\ UNCHANGED <<wvars, rvars, gvars, cvars>>

Metrics == {"commits", "prs", "linesAdded", "linesDeleted"}

RECURSIVE totalOver(_, _, _)
totalOver(weekData, metricName, usernames) ==
  IF usernames = {} THEN 0
  ELSE LET username == CHOOSE u \in usernames : TRUE
       IN weekData.users[username].weekly[metricName]
          + totalOver(weekData, metricName, usernames \ {username})

\* getTotalCommits, getTotalPRs, getTotalLinesAdded, getTotalLinesDeleted
\* (weekComparator.js 256-301).
getTotalMetric(weekData, metricName) ==
  totalOver(weekData, metricName, DOMAIN weekData.users)

\* { current, previous, ...calculatePercentageChange(current, previous) }
compareMetric(current, previous, tieUp) ==
  LET r == calculatePercentageChange(current, previous, tieUp)
  IN [current |-> current, previous |-> previous, change |-> r.change,
      infinite |-> r.infinite, delta |-> r.delta, isNew |-> r.isNew,
      isInactive |-> r.isInactive, isNoData |-> r.isNoData]

\* The weekly value of a metric, 0 for a user the week does not have
\* (weekComparator.js 131-135).
weeklyOrZero(weekData, username, metricName) ==
  IF username \in DOMAIN weekData.users
  THEN weekData.users[username].weekly[metricName]
  ELSE 0

currentUsersOnly(currentWeekData, previousWeekData) == DOMAIN currentWeekData.users

\* weekComparator.js 126-128.
allUsers(currentWeekData, previousWeekData) ==
  DOMAIN currentWeekData.users \cup DOMAIN previousWeekData.users

\* compareWeeks (weekComparator.js 65-163); hasPrevious is FALSE for
\* previousWeekData = null.
compareWeeks(currentWeekData, hasPrevious, previousWeekData, tieUp) ==
  IF ~ hasPrevious
  THEN [currentWeek |-> currentWeekData.week,
        previousWeek |-> "null",
        hasPreviousWeek |-> FALSE,
        comparisons |->
          [team |-> [m \in Metrics |->
                       compareMetric(getTotalMetric(currentWeekData, m), 0, tieUp)],
           users |-> EmptyMap]]
  ELSE [currentWeek |-> currentWeekData.week,
        previousWeek |-> previousWeekData.week,
        hasPreviousWeek |-> TRUE,
        comparisons |->
          [team |-> [m \in Metrics |->
                       compareMetric(getTotalMetric(currentWeekData, m),
                                     getTotalMetric(previousWeekData, m), tieUp)],
           users |-> [username \in allUsers(currentWeekData, previousWeekData) |->
                       [m \in Metrics |->
                          compareMetric(
                            weeklyOrZero(currentWeekData, username, m),
                            weeklyOrZero(previousWeekData, username, m),
                            tieUp)]]]]

\* The week files the comparator may be given: what the aggregator makes of a
\* week in which a user is absent, only reviewed, committed or opened a pull
\* request.
Activities == {"absent", "reviewed", "committed", "opened"}

withActivity(data, username, activity) ==
  LET date == getAllDatesInWeek[1]
  IN IF activity = "reviewed" THEN addReviewToData(data, username, date, 1, NoRepo)
     ELSE IF activity = "committed"
     THEN addCommitToData(data, username, date, 3, 1, NoRepo)
     ELSE IF activity = "opened" THEN addPRToData(data, username, date, NoRepo)
     ELSE data

weekOf(aliceDid, bobDid) ==
  calculateWeeklyTotals(
    withActivity(withActivity(createEmptyWeekStructure(<<>>, 0), "alice", aliceDid),
                 "bob", bobDid))

WeekChoices == {weekOf(a, b) : a \in Activities \ {"opened"}, b \in Activities}

CompareCalls ==
  [fn : {"compareWeeks"}, currentWeekData : WeekChoices, hasPrevious : {TRUE},
   previousWeekData : WeekChoices]
  \cup [fn : {"compareWeeks"}, currentWeekData : WeekChoices,
        hasPrevious : {FALSE}, previousWeekData : {NullData}]

CallCompareWeeks ==
  /\ call.fn = "compareWeeks" /\ ~ ret.done
  /\ \E tieUp \in BOOLEAN :
       ret' = [done |-> TRUE,
               value |-> compareWeeks(call.currentWeekData, call.hasPrevious,
                                      call.previousWeekData, tieUp)]
  /\ UNCHANGED call
  /\ UNCHANGED <<wvars, rvars, gvars, cvars>>

\* ------------------------------------------------------------------ utils/weekCalculator.js
\* Calendar days are counted from Monday 2019-12-30, which is day 0, so a day
\* is a Monday exactly when its number is a multiple of 7.
Years == 2020..2027

isLeapYear(year) == (year % 4 = 0 /\ year % 100 # 0) \/ year % 400 = 0

daysInYear(year) == IF isLeapYear(year) THEN 366 ELSE 365

\* The day number of 1 January.
RECURSIVE yearStart(_)
yearStart(year) ==
  IF year = 2020 THEN 2
  ELSE IF year > 2020 THEN yearStart(year - 1) + daysInYear(year - 1)
  ELSE yearStart(year + 1) - daysInYear(year)

daysBeforeMonth(year, month) ==
  LET lengths == <<31, IF isLeapYear(year) THEN 29 ELSE 28, 31, 30, 31, 30,
                   31, 31, 30, 31, 30, 31>>
  IN sumSeq(SubSeq(lengths, 1, month - 1))

\* new Date(year, month - 1, day), a local date.
dayNumber(year, month, day) == yearStart(year) + daysBeforeMonth(year, month) + day - 1

getYear(day) ==
  CHOOSE year \in 2018..2029 : yearStart(year) <= day /\ day < yearStart(year + 1)

\* date-fns startOfISOWeek: the Monday of the week of the day.
startOfISOWeek(day) == day - (day % 7)

\* date-fns startOfISOWeekYear: the Monday of the week that holds 4 January.
startOfISOWeekYear(year) == startOfISOWeek(dayNumber(year, 1, 4))

\* date-fns getISOWeekYear.
getISOWeekYear(day) ==
  LET year == getYear(day)
  IN IF day >= startOfISOWeekYear(year + 1) THEN year + 1
     ELSE IF day >= startOfISOWeekYear(year) THEN year
     ELSE year - 1

\* date-fns getISOWeek.
getISOWeek(day) ==
  (startOfISOWeek(day) - startOfISOWeekYear(getISOWeekYear(day))) \div 7 + 1

\* The number of ISO weeks of a year, 52 or 53.
weeksInYear(year) == (startOfISOWeekYear(year + 1) - startOfISOWeekYear(year)) \div 7

\* getWeekDateRange (weekCalculator.js 30-45): start and end are formatted in
\* local time from local dates, so they are the calendar days themselves.
getWeekDateRange(year, week) ==
  LET jan4 == dayNumber(year, 1, 4)
      weekStart == startOfISOWeek(jan4)
      targetStart == weekStart + (week - 1) * 7
      targetEnd == startOfISOWeek(targetStart) + 6
  IN [start |-> targetStart, end |-> targetEnd]

\* new Date('yyyy-MM-dd') is midnight UTC of that day; read in the local time
\* of a process whose zone is behind UTC it is the evening of the day before.
\* utcOffset is the offset of the zone of the process, in hours.
parseDateString(day, utcOffset) == IF utcOffset < 0 THEN day - 1 ELSE day

\* getWeekForDate (weekCalculator.js 75-81) of a date string.
getWeekForDate(day, utcOffset) ==
  LET d == parseDateString(day, utcOffset)
  IN [year |-> getISOWeekYear(d), week |-> getISOWeek(d)]

UTCOffsets == {-5, 0, 1}

WeekCalls(fn) ==
  {[fn |-> fn, year |-> y, week |-> w, utcOffset |-> z] :
     y \in Years, w \in 1..53, z \in UTCOffsets}

ValidWeek(c) == c.week <= weeksInYear(c.year)

\* getWeekForDate(getWeekDateRange(year, week).start)
CallWeekRoundTrip ==
  /\ call.fn = "getWeekDateRange" /\ ~ ret.done
  /\ LET range == getWeekDateRange(call.year, call.week)
     IN ret' = [done |-> TRUE,
                value |-> [range |-> range,
                           back |-> getWeekForDate(range.start, call.utcOffset)]]
  /\ UNCHANGED call
  /\ UNCHANGED <<wvars, rvars, gvars, cvars>>

\* ------------------------------------------------------------------ getPreviousWeek
\* fileManager.js 225-240.
getPreviousWeek(year, week) ==
  IF week > 1 THEN [year |-> year, week |-> week - 1]
  ELSE [year |-> year - 1, week |-> 52]

CallPreviousWeek ==
  /\ call.fn = "getPreviousWeek" /\ ~ ret.done
  /\ ret' = [done |-> TRUE, value |-> getPreviousWeek(call.year, call.week)]
  /\ UNCHANGED call
  /\ UNCHANGED <<wvars, rvars, gvars, cvars>>

\* ------------------------------------------------------------------ ai/contributorAnalyzer.js
CODE_SCORE_CAP == 300

\* Scores are counted in hundredths of a point, the precision of
\* Math.round(x * 100) / 100: a changed line is worth 0.01 point, one hundredth.
uncapped(codeRaw) == codeRaw

\* Math.min(codeRaw, CODE_SCORE_CAP)
capCode(codeRaw) == Min(codeRaw, CODE_SCORE_CAP * 100)

\* calculateContributionScoreBreakdown (contributorAnalyzer.js 255-271).
calculateContributionScoreBreakdown(data) ==
  LET commitsScore == data.commits * 2 * 100
      prsScore == data.prs * 5 * 100
      reviews == (data.reviewsGiven * 5 + data.uniquePRsReviewed * 4
                  + data.reviewCommentsGiven * 1) * 100
      codeRaw == data.linesAdded + data.linesDeleted
      code == capCode(codeRaw)
  IN [commits |-> commitsScore, prs |-> prsScore, reviews |-> reviews,
      code |-> code, total |-> commitsScore + prsScore + reviews + code]

ScoreInputs ==
  [commits : 0..2, prs : 0..2, linesAdded : {0, 1, 29999, 30000, 50000},
   linesDeleted : {0, 1, 30000}, reviewsGiven : 0..1,
   reviewCommentsGiven : 0..1, uniquePRsReviewed : 0..1]

ScoreCalls == {[fn |-> "calculateContributionScoreBreakdown", data |-> d] : d \in ScoreInputs}

CallScoreBreakdown ==
  /\ call.fn = "calculateContributionScoreBreakdown" /\ ~ ret.done
  /\ ret' = [done |-> TRUE, value |-> calculateContributionScoreBreakdown(call.data)]
  /\ UNCHANGED call
  /\ UNCHANGED <<wvars, rvars, gvars, cvars>>

\* ------------------------------------------------------------------ cli/backfillManager.js, validateAndParseWeek
\* getCurrentWeek (weekCalculator.js 16-22) and getWeekForDate of a Date
\* object: the ISO week of a local date.
getCurrentWeek(today) == [year |-> getISOWeekYear(today), week |-> getISOWeek(today)]

\* validateAndParseWeek(weekSpec) when the local date is today. weekSpec is
\* 'current', 'last', a YYYY-WW text (kind "iso", with its two numbers), a
\* YYYY-MM-DD text (kind "date", with its three numbers) or any other text.
validateAndParseWeek(weekSpec, today) ==
  IF weekSpec.kind = "current"
  THEN [threw |-> FALSE, format |-> "current",
        year |-> getCurrentWeek(today).year, week |-> getCurrentWeek(today).week]
  ELSE IF weekSpec.kind = "last"
  THEN LET current == getCurrentWeek(today)
       IN IF current.week - 1 < 1
          THEN [threw |-> FALSE, format |-> "last",
                year |-> current.year - 1, week |-> 53]
          ELSE [threw |-> FALSE, format |-> "last",
                year |-> current.year, week |-> current.week - 1]
  ELSE IF weekSpec.kind = "iso"
  THEN IF weekSpec.week < 1 \/ weekSpec.week > 53
       THEN [threw |-> TRUE, format |-> "iso", year |-> 0, week |-> 0]
       ELSE [threw |-> FALSE, format |-> "iso",
             year |-> weekSpec.year, week |-> weekSpec.week]
  ELSE IF weekSpec.kind = "date"
  THEN IF weekSpec.month < 1 \/ weekSpec.month > 12
          \/ weekSpec.day < 1 \/ weekSpec.day > 31
       THEN [threw |-> TRUE, format |-> "date", year |-> 0, week |-> 0]
       ELSE LET date == dayNumber(weekSpec.year, weekSpec.month, weekSpec.day)
            IN [threw |-> FALSE, format |-> "date",
                year |-> getCurrentWeek(date).year,
                week |-> getCurrentWeek(date).week]
  ELSE [threw |-> TRUE, format |-> "none", year |-> 0, week |-> 0]

Today == dayNumber(2025, 12, 23)

WeekSpecs(kind, years, weeks, months, days) ==
  [kind : {kind}, year : years, week : weeks, month : months, day : days]

ParseCalls ==
  {[fn |-> "validateAndParseWeek", weekSpec |-> w, today |-> t] :
     w \in WeekSpecs("current", {0}, {0}, {0}, {0})
           \cup WeekSpecs("last", {0}, {0}, {0}, {0}),
     t \in dayNumber(2020, 1, 1) .. dayNumber(2027, 12, 31)}
  \cup
  {[fn |-> "validateAndParseWeek", weekSpec |-> w, today |-> Today] :
     w \in WeekSpecs("iso", Years, 0 .. 54, {0}, {0})
           \cup WeekSpecs("date", Years, {0}, 0 .. 13, 0 .. 32)
           \cup WeekSpecs("other", {0}, {0}, {0}, {0})}

CallValidateAndParseWeek ==
  /\ call.fn = "validateAndParseWeek" /\ ~ ret.done
  /\ ret' = [done |-> TRUE, value |-> validateAndParseWeek(call.weekSpec, call.today)]
  /\ UNCHANGED call
  /\ UNCHANGED <<wvars, rvars, gvars, cvars>>

FInit ==
  /\ call \in PercentageCalls \cup CompareCalls \cup ParseCalls
               \cup {c \in WeekCalls("getWeekDateRange") : ValidWeek(c)}
               \cup {c \in WeekCalls("getPreviousWeek") :
                       ValidWeek(c) /\ c.utcOffset = 0}
               \cup ScoreCalls
  /\ ret = NoRet
  /\ WIdle
  /\ RInit
  /\ GIdle
  /\ CIdle

FNext ==
  \/ CallPercentageChange
  \/ CallCompareWeeks
  \/ CallWeekRoundTrip
  \/ CallPreviousWeek
  \/ CallScoreBreakdown
  \/ CallValidateAndParseWeek

SpecReports == FInit /\ [][FNext]_vars

\* ------------------------------------------------------------------ two runs of fetchWeekData at once
\* Two processes (two invocations of the CLI, or a backfill beside a direct
\* call) run fetchWeekData for the same week without forceRefresh. Each run
\* is cut at the awaits where the other can act: after the load, after the
\* fetches, and at the save. The code takes no lock on the week file.
Procs == {1, 2}

NoProc ==
  [pc |-> "start", hasExisting |-> FALSE, existingData |-> NullData,
   missingDates |-> <<>>, commits |-> <<>>, prs |-> <<>>, weekData |-> NullData]

ProviderChoices ==
  {[commits |-> BagAdd(EmptyMap, c), prs |-> EmptyMap] : c \in CommitChoices}
  \cup {[commits |-> BagAdd(BagAdd(EmptyMap, c1), c2), prs |-> EmptyMap] :
           c1 \in CommitChoices, c2 \in CommitChoices}
  \cup {[commits |-> BagAdd(EmptyMap, c), prs |-> BagAdd(EmptyMap, pr)] :
           c \in CommitChoices, pr \in PRChoices}

CInit ==
  /\ procs = [p \in Procs |-> NoProc]
  /\ backfill = NoBackfill
  /\ heap = NoHeap
  /\ provider \in ProviderChoices
  /\ disk = AbsentFile
  /\ backup = AbsentFile
  /\ pc = "idle"
  /\ run = NoRun
  /\ obs = NoObs
  /\ runs = 0
  /\ prev = [ok |-> FALSE, file |-> AbsentFile, oneRepoFailed |-> FALSE]
  /\ results = NoResults
  /\ WIdle
  /\ GIdle
  /\ FIdle

\* index.js 516-545: weekFileExists, loadWeekData, getMissingDates and the
\* early return when no date is missing.
CLoad(p) ==
  /\ procs[p].pc = "start"
  /\ LET exists == disk.state = "json"
         missing == IF exists THEN getMissingDates(disk.data, getAllDatesInWeek)
                    ELSE getAllDatesInWeek
     IN procs' = [procs EXCEPT
          ![p] = [@ EXCEPT !.hasExisting = exists,
                           !.existingData = IF exists THEN disk.data ELSE NullData,
                           !.missingDates = missing,
                           !.pc = IF exists /\ missing = <<>> THEN "returned"
                                  ELSE "fetch"]]
  /\ UNCHANGED <<backfill, heap>>
  /\ UNCHANGED <<wvars, rvars, gvars, fvars>>

\* index.js 550-584: the commits and the pull requests of every repository
\* for the missing dates; a repository whose request fails gives [].
CFetch(p) ==
  /\ procs[p].pc = "fetch"
  /\ \E commitOutcome \in [1 .. Len(repositories) -> {"ok", "error"}],
        prOutcome \in [1 .. Len(repositories) -> {"ok", "error"}] :
       LET from == procs[p].missingDates[1]
           to == procs[p].missingDates[Len(procs[p].missingDates)]
           commitsOf(i) ==
             fetchCommitsForRepo(commitOutcome[i],
               listCommits(provider.commits, repositories[i], from, to)).items
           prsOf(i) ==
             fetchPRsForRepo(prOutcome[i],
               getPullRequests(provider.prs, repositories[i], from)).items
       IN procs' = [procs EXCEPT
            ![p] = [@ EXCEPT !.commits = commitsOf(1) \o commitsOf(2),
                             !.prs = prsOf(1) \o prsOf(2),
                             !.pc = "aggregate"]]
  /\ UNCHANGED <<backfill, heap>>
  /\ UNCHANGED <<wvars, rvars, gvars, fvars>>

\* index.js 574-732: the review data of the fetched pull requests, the
\* aggregation into weekData and saveWeekData, which copies an existing week
\* file to the backup and writes the new JSON text.
CSave(p) ==
  /\ procs[p].pc = "aggregate"
  /\ LET weekData ==
           finalWeekData(procs[p].hasExisting, procs[p].existingData,
                         procs[p].commits, procs[p].prs,
                         fetchReviewDataForPRs(procs[p].prs), p)
     IN /\ procs' = [procs EXCEPT ![p] = [@ EXCEPT !.weekData = weekData,
                                                    !.pc = "saved"]]
        /\ disk' = JsonFile(weekData)
  /\ backup' = IF disk.state = "absent" THEN backup ELSE disk
  /\ UNCHANGED <<backfill, heap>>
  /\ UNCHANGED <<provider, pc, run, obs, runs, prev, results>>
  /\ UNCHANGED <<wvars, gvars, fvars>>

CNext ==
  \/ \E p \in Procs : CLoad(p)
  \/ \E p \in Procs : CFetch(p)
  \/ \E p \in Procs : CSave(p)

SpecConcurrent == CInit /\ [][CNext]_vars

\* ------------------------------------------------------------------ processBackfill
WeekStrs == {"2025-50", "2025-51", "2025-52"}

RECURSIVE SeqsUpTo(_, _)
SeqsUpTo(S, n) ==
  IF n = 0 THEN {<<>>}
  ELSE LET shorter == SeqsUpTo(S, n - 1)
       IN shorter \cup {Append(q, x) : q \in shorter, x \in S}

\* backfillManager.js 398-404: the results object and the loop's first test.
BInit ==
  /\ \E selectedWeeks \in SeqsUpTo(WeekStrs, MaxWeeks) :
       backfill = [NoBackfill EXCEPT
                     !.selectedWeeks = selectedWeeks,
                     !.pc = IF selectedWeeks = <<>> THEN "summary" ELSE "call"]
  /\ procs = <<>>
  /\ heap = NoHeap
  /\ WIdle
  /\ RInit
  /\ GIdle
  /\ FIdle

\* The try block up to the await: fetchFunction(week.year, week.week, false).
BCallFetch ==
  /\ backfill.pc = "call"
  /\ backfill' = [backfill EXCEPT
       !.attempted = Append(@, backfill.selectedWeeks[backfill.i]),
       !.pc = "awaiting"]
  /\ UNCHANGED <<procs, heap>>
  /\ UNCHANGED <<wvars, rvars, gvars, fvars>>

\* results.successful++
countSuccess(counts) == [counts EXCEPT !.successful = @ + 1]

countOnly(counts, weekStr) == [counts EXCEPT !.failed = @ + 1]

\* The catch block: results.failed++ and results.errors.push({week, error}).
recordFailure(counts, weekStr) ==
  [counts EXCEPT !.failed = @ + 1, !.errors = Append(@, weekStr)]

\* fetchFunction returns or throws; then the test i < selectedWeeks.length - 1
\* before the delay (indices from 1 here).
BFetchEnds ==
  /\ backfill.pc = "awaiting"
  /\ \E threw \in BOOLEAN :
       backfill' = [backfill EXCEPT
         !.results = IF threw
                     THEN recordFailure(@, backfill.selectedWeeks[backfill.i])
                     ELSE countSuccess(@),
         !.outcomes = Append(@, IF threw THEN "threw" ELSE "returned"),
         !.pc = IF backfill.i < Len(backfill.selectedWeeks) THEN "delay"
                ELSE "summary",
         !.i = IF backfill.i < Len(backfill.selectedWeeks) THEN @ ELSE @ + 1]
  /\ UNCHANGED <<procs, heap>>
  /\ UNCHANGED <<wvars, rvars, gvars, fvars>>

\* The 500 ms delay between two weeks has passed; i++.
BDelayEnds ==
  /\ backfill.pc = "delay"
  /\ backfill' = [backfill EXCEPT !.i = @ + 1, !.pc = "call"]
  /\ UNCHANGED <<procs, heap>>
  /\ UNCHANGED <<wvars, rvars, gvars, fvars>>

\* The summary is printed and results is returned.
BReturn ==
  /\ backfill.pc = "summary"
  /\ backfill' = [backfill EXCEPT !.pc = "returned"]
  /\ UNCHANGED <<procs, heap>>
  /\ UNCHANGED <<wvars, rvars, gvars, fvars>>

BNext ==
  \/ BCallFetch
  \/ BFetchEnds
  \/ BDelayEnds
  \/ BReturn

SpecBackfill == BInit /\ [][BNext]_vars

\* ------------------------------------------------------------------ storage functions called alone
\* mergeWithExisting(mergeWithExisting(E, A), B) and
\* mergeWithExisting(mergeWithExisting(E, B), A)
MergeCalls ==
  [fn : {"mergeWithExisting"}, E : WeekChoices, A : WeekChoices, B : WeekChoices]

CallMergeBothOrders ==
  /\ call.fn = "mergeWithExisting" /\ ~ ret.done
  /\ ret' = [done |-> TRUE,
             value |-> [ab |-> mergeWithExisting(
                                 mergeWithExisting(call.E, call.A, 1), call.B, 2),
                        ba |-> mergeWithExisting(
                                 mergeWithExisting(call.E, call.B, 1), call.A, 2)]]
  /\ UNCHANGED call
  /\ UNCHANGED <<wvars, rvars, gvars, cvars>>

\* Snapshots for the record* functions: with and without an entry for the
\* user and the date, with and without metrics of the repository.
RecordData ==
  WeekChoices
  \cup {addCommitToData(w, "alice", getAllDatesInWeek[1], 5, 2, "r1") :
          w \in WeekChoices}

RecordFns ==
  {"addCommitToData", "addPRToData", "addReviewToData",
   "addReviewCommentsToData", "addDiscussionCommentsToData"}

\* linesAdded and linesDeleted are read by addCommitToData only, count by the
\* three functions that take it.
RecordCalls ==
  {c \in [fn : RecordFns, data : RecordData, username : Users,
          date : Range(getAllDatesInWeek), linesAdded : {0, 3},
          linesDeleted : {0, 1}, count : {1, 2}, repository : Repos \cup {NoRepo}] :
     /\ c.fn # "addCommitToData" => c.linesAdded = 0 /\ c.linesDeleted = 0
     /\ c.fn \in {"addCommitToData", "addPRToData"} => c.count = 1}

CallRecord(fn, result) ==
  /\ call.fn = fn /\ ~ ret.done
  /\ ret' = [done |-> TRUE, value |-> result]
  /\ UNCHANGED call
  /\ UNCHANGED <<wvars, rvars, gvars, cvars>>

CallAddCommit ==
  CallRecord("addCommitToData",
    addCommitToData(call.data, call.username, call.date, call.linesAdded,
                    call.linesDeleted, call.repository))

CallAddPR ==
  CallRecord("addPRToData",
    addPRToData(call.data, call.username, call.date, call.repository))

CallAddReview ==
  CallRecord("addReviewToData",
    addReviewToData(call.data, call.username, call.date, call.count,
                    call.repository))

CallAddReviewComments ==
  CallRecord("addReviewCommentsToData",
    addReviewCommentsToData(call.data, call.username, call.date, call.count,
                            call.repository))

CallAddDiscussionComments ==
  CallRecord("addDiscussionCommentsToData",
    addDiscussionCommentsToData(call.data, call.username, call.date, call.count,
                                call.repository))

\* Snapshots for getMissingDates: what alice's entry of each date holds, and
\* what bob's entry of the first date holds.
DayKinds == {"none", "zero", "reviewed", "committed", "opened", "deleted"}

dayOfKind(kind) ==
  IF kind = "reviewed"
  THEN [ZeroMetrics EXCEPT !.reviewsGiven = 1, !.discussionCommentsGiven = 2]
  ELSE IF kind = "committed" THEN [ZeroMetrics EXCEPT !.commits = 1]
  ELSE IF kind = "opened" THEN [ZeroMetrics EXCEPT !.prs = 1]
  ELSE IF kind = "deleted" THEN [ZeroMetrics EXCEPT !.linesDeleted = 1]
  ELSE ZeroMetrics

dailyOfKinds(kinds) ==
  [d \in {x \in DOMAIN kinds : kinds[x] # "none"} |-> dayOfKind(kinds[d])]

snapshotOfKinds(aliceKinds, bobKind) ==
  calculateWeeklyTotals(
    [createEmptyWeekStructure(<<>>, 0) EXCEPT !.users =
       [u \in Users |->
          [daily |-> IF u = "alice" THEN dailyOfKinds(aliceKinds)
                     ELSE dailyOfKinds([d \in {getAllDatesInWeek[1]} |-> bobKind]),
           weekly |-> ZeroMetrics]]])

MissingCalls ==
  {[fn |-> "getMissingDates", data |-> snapshotOfKinds(a, b),
    allDatesInWeek |-> getAllDatesInWeek] :
     a \in [Range(getAllDatesInWeek) -> DayKinds],
     b \in {"none", "reviewed", "opened"}}

CallGetMissingDates ==
  /\ call.fn = "getMissingDates" /\ ~ ret.done
  /\ ret' = [done |-> TRUE,
             value |-> getMissingDates(call.data, call.allDatesInWeek)]
  /\ UNCHANGED call
  /\ UNCHANGED <<wvars, rvars, gvars, cvars>>

SInit ==
  /\ call \in MergeCalls \cup RecordCalls \cup MissingCalls
  /\ ret = NoRet
  /\ WIdle
  /\ RInit
  /\ GIdle
  /\ CIdle

SNext ==
  \/ CallMergeBothOrders
  \/ CallAddCommit
  \/ CallAddPR
  \/ CallAddReview
  \/ CallAddReviewComments
  \/ CallAddDiscussionComments
  \/ CallGetMissingDates

SpecStorage == SInit /\ [][SNext]_vars

\* ------------------------------------------------------------------ mergeWithExisting on objects in memory
\* A JavaScript object is a cell of the heap: its number and string properties
\* (scalars) and its properties that refer to other objects (refs, the address
\* of the object referred to). An address is an index into the list of cells.
\* A snapshot is the cell of the week data with its repositories array, its
\* repositoryMetrics and users objects, and below them one cell per
\* repository, user, daily object, day and weekly object.
Extend(f, k, v) == [x \in DOMAIN f \cup {k} |-> IF x = k THEN v ELSE f[x]]

Cell(scalars, refs) == [scalars |-> scalars, refs |-> refs]

\* An object whose properties are objects of numbers (daily, repositoryMetrics).
RECURSIVE storeCells(_, _, _, _)
storeCells(cells, map, keys, refs) ==
  IF keys = {} THEN [cells |-> Append(cells, Cell(EmptyMap, refs)),
                     addr |-> Len(cells) + 1]
  ELSE LET k == CHOOSE x \in keys : TRUE
       IN storeCells(Append(cells, Cell(map[k], EmptyMap)), map, keys \ {k},
                     Extend(refs, k, Len(cells) + 1))

storeUser(cells, user) ==
  LET daily == storeCells(cells, user.daily, DOMAIN user.daily, EmptyMap)
      withWeekly == Append(daily.cells, Cell(user.weekly, EmptyMap))
  IN [cells |-> Append(withWeekly,
                  Cell(EmptyMap, [daily |-> daily.addr, weekly |-> Len(withWeekly)])),
      addr |-> Len(withWeekly) + 1]

RECURSIVE storeUsers(_, _, _, _)
storeUsers(cells, users, names, refs) ==
  IF names = {} THEN [cells |-> Append(cells, Cell(EmptyMap, refs)),
                      addr |-> Len(cells) + 1]
  ELSE LET u == CHOOSE x \in names : TRUE
           stored == storeUser(cells, users[u])
       IN storeUsers(stored.cells, users, names \ {u}, Extend(refs, u, stored.addr))

\* The objects of a snapshot as JSON.parse builds them.
storeSnapshot(cells, data) ==
  LET withRepos == Append(cells, Cell(data.repositories, EmptyMap))
      metrics == storeCells(withRepos, data.repositoryMetrics,
                            DOMAIN data.repositoryMetrics, EmptyMap)
      users == storeUsers(metrics.cells, data.users, DOMAIN data.users, EmptyMap)
  IN [cells |-> Append(users.cells,
                  Cell([week |-> data.week, weekStart |-> data.weekStart,
                        weekEnd |-> data.weekEnd, generatedAt |-> data.generatedAt],
                       [repositories |-> Len(withRepos),
                        repositoryMetrics |-> metrics.addr, users |-> users.addr])),
      addr |-> Len(users.cells) + 1]

\* The value of a snapshot in memory, as JSON.stringify would print it.
loadMap(cells, a) ==
  [k \in DOMAIN cells[a].refs |-> cells[cells[a].refs[k]].scalars]

loadSnapshot(cells, a) ==
  LET root == cells[a]
      users == cells[root.refs.users].refs
  IN [week |-> root.scalars.week, weekStart |-> root.scalars.weekStart,
      weekEnd |-> root.scalars.weekEnd, generatedAt |-> root.scalars.generatedAt,
      repositories |-> cells[root.refs.repositories].scalars,
      repositoryMetrics |-> loadMap(cells, root.refs.repositoryMetrics),
      users |-> [u \in DOMAIN users |->
                   [daily |-> loadMap(cells, cells[users[u]].refs.daily),
                    weekly |-> cells[cells[users[u]].refs.weekly].scalars]]]

\* JSON.parse(JSON.stringify(x)): a new object for x and for every object
\* below it.
RECURSIVE deepCopy(_, _), copyRefs(_, _, _, _)
deepCopy(cells, a) ==
  copyRefs(cells, a, DOMAIN cells[a].refs, EmptyMap)

copyRefs(cells, a, keys, refs) ==
  IF keys = {} THEN [cells |-> Append(cells, Cell(cells[a].scalars, refs)),
                     addr |-> Len(cells) + 1]
  ELSE LET k == CHOOSE x \in keys : TRUE
           child == deepCopy(cells, cells[a].refs[k])
       IN copyRefs(child.cells, a, keys \ {k}, Extend(refs, k, child.addr))

\* merged.users[username].daily[date] = dayData, without the spread.
sameObject(cells, a) == [cells |-> cells, addr |-> a]

\* { ...dayData }: a new object with the properties of dayData.
spreadCopy(cells, a) ==
  [cells |-> Append(cells, Cell(cells[a].scalars, cells[a].refs)),
   addr |-> Len(cells) + 1]

\* ensureUserExists on the object at address data.
ensureUserExistsInPlace(cells, data, username) ==
  LET users == cells[data].refs.users
  IN IF username \in DOMAIN cells[users].refs THEN cells
     ELSE LET c1 == Append(cells, Cell(EmptyMap, EmptyMap))
              c2 == Append(c1, Cell(ZeroMetrics, EmptyMap))
              c3 == Append(c2, Cell(EmptyMap,
                                    [daily |-> Len(c1), weekly |-> Len(c2)]))
          IN [c3 EXCEPT ![users].refs = Extend(@, username, Len(c3))]

\* ensureDateExists on the object at address data.
ensureDateExistsInPlace(cells, data, username, date) ==
  LET c1 == ensureUserExistsInPlace(cells, data, username)
      daily == c1[c1[c1[data].refs.users].refs[username]].refs.daily
  IN IF date \in DOMAIN c1[daily].refs THEN c1
     ELSE LET c2 == Append(c1, Cell(ZeroMetrics, EmptyMap))
          IN [c2 EXCEPT ![daily].refs = Extend(@, date, Len(c2))]

\* The loop over Object.entries(userData.daily) of mergeWithExisting.
RECURSIVE mergeDailyInPlace(_, _, _, _)
mergeDailyInPlace(cells, mergedDaily, newDaily, dates) ==
  IF dates = {} THEN cells
  ELSE LET date == CHOOSE x \in dates : TRUE
           copy == spreadCopy(cells, cells[newDaily].refs[date])
       IN mergeDailyInPlace(
            IF date \in DOMAIN cells[mergedDaily].refs THEN cells
            ELSE [copy.cells EXCEPT ![mergedDaily].refs = Extend(@, date, copy.addr)],
            mergedDaily, newDaily, dates \ {date})

\* The loop over Object.entries(newData.users) of mergeWithExisting.
RECURSIVE mergeUsersInPlace(_, _, _, _)
mergeUsersInPlace(cells, merged, newData, names) ==
  IF names = {} THEN cells
  ELSE LET username == CHOOSE x \in names : TRUE
           c1 == ensureUserExistsInPlace(cells, merged, username)
           mergedDaily == c1[c1[c1[merged].refs.users].refs[username]].refs.daily
           newDaily == c1[c1[c1[newData].refs.users].refs[username]].refs.daily
       IN mergeUsersInPlace(
            mergeDailyInPlace(c1, mergedDaily, newDaily, DOMAIN c1[newDaily].refs),
            merged, newData, names \ {username})

\* calculateWeeklyTotals on the object at address data: the weekly object of
\* every user is reset and summed in place.
RECURSIVE calculateWeeklyTotalsInPlace(_, _, _)
calculateWeeklyTotalsInPlace(cells, data, names) ==
  IF names = {} THEN cells
  ELSE LET username == CHOOSE x \in names : TRUE
           user == cells[cells[cells[data].refs.users].refs[username]]
           daily == loadMap(cells, user.refs.daily)
       IN calculateWeeklyTotalsInPlace(
            [cells EXCEPT ![user.refs.weekly].scalars =
               weeklyOfUser([daily |-> daily, weekly |-> @])],
            data, names \ {username})

\* mergeWithExisting(existingData, newData) on objects: the address of the
\* object it returns and the memory afterwards.
mergeWithExistingInPlace(cells, existingData, newData, generatedAt) ==
  LET copy == deepCopy(cells, existingData)
      merged == copy.addr
      c1 == mergeUsersInPlace(copy.cells, merged, newData,
                              DOMAIN cells[cells[newData].refs.users].refs)
      newRepos == c1[c1[newData].refs.repositories].scalars
      c2 == IF Len(newRepos) > 0
            THEN LET c == Append(c1,
                            Cell(uniqueInOrder(
                                   c1[c1[merged].refs.repositories].scalars
                                   \o newRepos, {}),
                                 EmptyMap))
                 IN [c EXCEPT ![merged].refs.repositories = Len(c)]
            ELSE c1
      c3 == [c2 EXCEPT ![merged].scalars.generatedAt = generatedAt]
  IN [cells |-> calculateWeeklyTotalsInPlace(
                  c3, merged, DOMAIN c3[c3[merged].refs.users].refs),
      addr |-> merged]

\* addMetricsToRepository on the object at address data.
addMetricsToRepositoryInPlace(cells, data, repository, metrics) ==
  LET rm == cells[data].refs.repositoryMetrics
      c1 == IF repository \in DOMAIN cells[rm].refs THEN cells
            ELSE LET c == Append(cells, Cell(ZeroMetrics, EmptyMap))
                 IN [c EXCEPT ![rm].refs = Extend(@, repository, Len(c))]
      target == c1[rm].refs[repository]
  IN [c1 EXCEPT ![target].scalars =
        [f \in DOMAIN @ |-> @[f] + metrics[f]]]

\* addCommitToData .. addDiscussionCommentsToData on the object at address
\* data; metrics holds what the function adds to the counters.
recordInPlace(cells, data, username, date, metrics, repository) ==
  LET c1 == ensureDateExistsInPlace(cells, data, username, date)
      day == c1[c1[c1[c1[data].refs.users].refs[username]].refs.daily].refs[date]
      c2 == [c1 EXCEPT ![day].scalars = [f \in DOMAIN @ |-> @[f] + metrics[f]]]
  IN IF repository # NoRepo
     THEN addMetricsToRepositoryInPlace(c2, data, repository, metrics)
     ELSE c2

RecordMetrics ==
  {[ZeroMetrics EXCEPT !.commits = 1, !.linesAdded = 3, !.linesDeleted = 1],
   [ZeroMetrics EXCEPT !.prs = 1],
   [ZeroMetrics EXCEPT !.reviewsGiven = 1],
   [ZeroMetrics EXCEPT !.reviewCommentsGiven = 1],
   [ZeroMetrics EXCEPT !.discussionCommentsGiven = 1]}

\* The arguments of the call: two snapshots parsed from JSON, or one snapshot
\* passed as both arguments.
HInit ==
  /\ \E existingData \in WeekChoices, newData \in RecordData,
        sameArgument \in BOOLEAN :
       LET e == storeSnapshot(<<>>, existingData)
           n == IF sameArgument THEN e ELSE storeSnapshot(e.cells, newData)
       IN heap = [NoHeap EXCEPT !.cells = n.cells, !.existingData = e.addr,
                                !.newData = n.addr, !.pc = "call",
                                !.before = n.cells]
  /\ procs = <<>>
  /\ backfill = NoBackfill
  /\ WIdle
  /\ RInit
  /\ GIdle
  /\ FIdle

HMerge ==
  /\ heap.pc = "call"
  /\ LET res == mergeWithExistingInPlace(heap.cells, heap.existingData,
                                         heap.newData, 1)
     IN heap' = [heap EXCEPT !.cells = res.cells, !.merged = res.addr,
                             !.pc = "merged"]
  /\ UNCHANGED <<procs, backfill>>
  /\ UNCHANGED <<wvars, rvars, gvars, fvars>>

\* A record* function is applied to the object mergeWithExisting returned.
HRecordOnResult ==
  /\ heap.pc = "merged"
  /\ \E username \in Users, date \in Range(getAllDatesInWeek),
        metrics \in RecordMetrics, repository \in {NoRepo, "r1"} :
       heap' = [heap EXCEPT
                  !.cells = recordInPlace(heap.cells, heap.merged, username, date,
                                          metrics, repository),
                  !.pc = "changed"]
  /\ UNCHANGED <<procs, backfill>>
  /\ UNCHANGED <<wvars, rvars, gvars, fvars>>

\* calculateWeeklyTotals is applied to the object mergeWithExisting returned,
\* after a record* function or directly.
HTotalsOnResult ==
  /\ heap.pc \in {"merged", "changed"}
  /\ heap' = [heap EXCEPT
       !.cells = calculateWeeklyTotalsInPlace(
                   heap.cells, heap.merged,
                   DOMAIN heap.cells[heap.cells[heap.merged].refs.users].refs),
       !.pc = "totalled"]
  /\ UNCHANGED <<procs, backfill>>
  /\ UNCHANGED <<wvars, rvars, gvars, fvars>>

HNext ==
  \/ HMerge
  \/ HRecordOnResult
  \/ HTotalsOnResult

SpecHeap == HInit /\ [][HNext]_vars

\* ------------------------------------------------------------------ claims on the aggregator
Fields ==
  {"commits", "prs", "linesAdded", "linesDeleted", "reviewsGiven",
   "reviewCommentsGiven", "discussionCommentsGiven"}

HasDay(data, u, d) ==
  u \in DOMAIN data.users /\ d \in DOMAIN data.users[u].daily

RECURSIVE FieldSum(_, _, _)
FieldSum(daily, f, dates) ==
  IF dates = {} THEN 0
  ELSE LET d == CHOOSE x \in dates : TRUE
       IN daily[d][f] + FieldSum(daily, f, dates \ {d})

WeeklyIsSumOfDaily(data) ==
  \A u \in DOMAIN data.users : \A f \in Fields :
    data.users[u].weekly[f] =
      FieldSum(data.users[u].daily, f, DOMAIN data.users[u].daily)

\* C1: append-only merge.  Every (user, date) of existingData is in the result
\* of mergeWithExisting with exactly its existing metrics, whatever newData
\* holds for it; every (user, date) of newData that existingData lacks is
\* copied into the result unchanged.
C1_AppendOnlyMerge ==
  wPhase = "merged" =>
    /\ \A u \in DOMAIN wExisting.users : \A d \in DOMAIN wExisting.users[u].daily :
          /\ HasDay(wMerged, u, d)
          /\ wMerged.users[u].daily[d] = wExisting.users[u].daily[d]
    /\ \A u \in DOMAIN wFresh.users : \A d \in DOMAIN wFresh.users[u].daily :
          ~ HasDay(wExisting, u, d) =>
            /\ HasDay(wMerged, u, d)
            /\ wMerged.users[u].daily[d] = wFresh.users[u].daily[d]

\* C1 witness: a merge where newData disagrees with existingData on a recorded
\* day and also brings a day existingData lacks (Scenario B).
C1_Witness ==
  /\ wPhase = "merged"
  /\ \E u \in Users, d1, d2 \in Range(getAllDatesInWeek) :
       /\ HasDay(wExisting, u, d1) /\ HasDay(wFresh, u, d1)
       /\ wExisting.users[u].daily[d1] # wFresh.users[u].daily[d1]
       /\ HasDay(wFresh, u, d2) /\ ~ HasDay(wExisting, u, d2)
       /\ wFresh.users[u].daily[d2].commits = 1

BuiltFromNoEvents(data) == data = createEmptyWeekStructure(data.repositories, 0)

SameContent(a, b) ==
  /\ a.users = b.users
  /\ a.repositories = b.repositories
  /\ a.repositoryMetrics = b.repositoryMetrics
  /\ a.week = b.week /\ a.weekStart = b.weekStart /\ a.weekEnd = b.weekEnd

\* C4 as stated: merging a recomputed snapshot S with any snapshot built from
\* no events gives the users, daily entries, weekly totals, repositories and
\* repositoryMetrics of S.
C4_MergeIdempotent_Original ==
  (wPhase = "merged" /\ wRecomputed /\ BuiltFromNoEvents(wFresh)) =>
    SameContent(wMerged, wExisting)

\* C4 amended: the same, when every repository listed by the empty snapshot is
\* already listed by S (mergeWithExisting appends the others to repositories).
C4_MergeIdempotent ==
  (/\ wPhase = "merged" /\ wRecomputed /\ BuiltFromNoEvents(wFresh)
   /\ Range(wFresh.repositories) \subseteq Range(wExisting.repositories)) =>
    SameContent(wMerged, wExisting)

\* C4 witness: a recomputed snapshot with recorded activity merged with an
\* empty snapshot that lists a repository.
C4_Witness ==
  /\ wPhase = "merged" /\ wRecomputed /\ BuiltFromNoEvents(wFresh)
  /\ wFresh.repositories = <<"r1">>
  /\ \E u \in DOMAIN wExisting.users : wExisting.users[u].weekly.commits >= 2
  /\ wExisting.repositoryMetrics["r1"].commits >= 1

\* C5: weekly-total invariant.  After calculateWeeklyTotals, and in every
\* result of mergeWithExisting, each weekly counter is the sum of that counter
\* over the user's daily entries, and calculateWeeklyTotals applied once more
\* changes nothing.
C5_WeeklyTotals ==
  /\ wPhase = "calculated" =>
        (WeeklyIsSumOfDaily(wExisting) /\ calculateWeeklyTotals(wExisting) = wExisting)
  /\ wPhase = "merged" =>
        (WeeklyIsSumOfDaily(wMerged) /\ calculateWeeklyTotals(wMerged) = wMerged)

\* C5 witness: a merge over an existingData whose weekly totals were stale,
\* giving a user two days and non-zero totals.
C5_Witness ==
  /\ wPhase = "merged" /\ ~ wRecomputed
  /\ \E u \in DOMAIN wMerged.users :
       /\ Cardinality(DOMAIN wMerged.users[u].daily) >= 2
       /\ wMerged.users[u].weekly.commits >= 2
       /\ u \in DOMAIN wExisting.users
       /\ wExisting.users[u].weekly.commits = 0

\* ------------------------------------------------------------------ claims on fetchWeekData
InRun == pc \notin {"idle", "counted"}

SameDay(E, S, u, d) ==
  /\ u \in DOMAIN S.users
  /\ d \in DOMAIN S.users[u].daily
  /\ S.users[u].daily[d] = E.users[u].daily[d]

\* C2: a non-forced run on a week that has a persisted snapshot E saves a
\* snapshot in which every day recorded in E, for every user, is as it is in E.
C2_RecordedDaysKept ==
  (InRun /\ obs.saved /\ ~ run.forceRefresh /\ obs.atStart.state = "json") =>
    \A u \in DOMAIN obs.atStart.data.users :
      \A d \in DOMAIN obs.atStart.data.users[u].daily :
        SameDay(obs.atStart.data, disk.data, u, d)

\* C3: when two runs without --force follow each other, every fetch of both
\* answered and the provider unchanged, the snapshot saved by the second has the
\* users and the repositoryMetrics of the snapshot saved by the first.
C3_RunsIdentical ==
  (pc = "returned" /\ runs = 2 /\ ~ run.forceRefresh /\ obs.failedRepos = {}
     /\ prev.ok /\ prev.file.state = "json") =>
    /\ disk.state = "json"
    /\ disk.data.users = prev.file.data.users
    /\ disk.data.repositoryMetrics = prev.file.data.repositoryMetrics

\* C6: while saveWeekData overwrites a week file that existed, the backup file
\* holds exactly what the week file held before.
C6_BackupBeforeOverwrite ==
  (pc = "writing" /\ obs.preSave.state # "absent") => backup = obs.preSave

\* C7: at every point of a run the week file is the file that was there before
\* the run or the complete final snapshot of the run.
C7_AllOrNothing ==
  InRun => \/ disk = obs.atStart
           \/ obs.saved /\ disk = JsonFile(run.weekData)

\* C8: a week in which the commit or pull request fetch of a repository failed
\* with an error other than 404 is not counted by processBackfill as successful
\* with no recorded error.
C8_FailureReported ==
  (pc = "counted" /\ obs.hardFailure) =>
    ~ (results.successful = 1 /\ results.failed = 0 /\ results.errors = <<>>)

\* C9: a run does not end without saving because a fetch for one repository
\* failed.
C9_FailureDoesNotBlock ==
  ~ (pc = "threw" /\ ~ obs.saved /\ obs.threwAt \in {"commits", "prs", "reviews"})

\* ------------------------------------------------------------------ claims on getCommits
AllAnswered == \A k \in 1..Len(requested) : requested[k].outcome = "ok"

C10_Complete ==
  (gpc = "returned" /\ AllAnswered) =>
    /\ commits = listed
    /\ Len(requested) = Len(listed) \div per_page + 1
    /\ \A k \in 1..Len(requested) : requested[k].page = k

\* C10: getCommits requests the pages 1, 2, 3, ... and stops after the first
\* page with fewer than 100 items; when every request is answered it returns
\* the provider's list, each item once and in order, and the call ends.
C10_Pagination == [] C10_Complete /\ <> (gpc \in {"returned", "threw"})

C10_Witness ==
  /\ gpc = "returned" /\ AllAnswered
  /\ Len(listed) = 2 * per_page
  /\ Len(requested) = 3

\* ------------------------------------------------------------------ claims on the paged calls
LastRequest == requested[Len(requested)]

\* What the pages before the last request held, as the call collects them.
CollectedBefore ==
  LET fetched == SubSeq(listed, 1,
                        Min((Len(requested) - 1) * per_page, Len(listed)))
  IN IF method = "getCommits" THEN fetched
     ELSE SelectSeq(fetched, LAMBDA pr : pr.createdAt >= sinceDate)

\* C11: when a page request of getCommits or getPullRequests fails with 404
\* the call does not throw, asks for no further page and holds exactly the
\* items of the pages fetched before.
C11_SoftNotFound ==
  (requested # <<>> /\ LastRequest.outcome = "notfound") =>
    /\ gpc \in {"loop", "returned"}
    /\ ~ hasMore
    /\ commits = CollectedBefore
    /\ \A k \in 1..(Len(requested) - 1) : requested[k].outcome = "ok"

C11_Witness ==
  /\ method = "getPullRequests" /\ gpc = "returned"
  /\ Len(requested) = 2 /\ LastRequest.outcome = "notfound"
  /\ Len(commits) = per_page

LowBudget(r) == r.quota.known /\ r.quota.remaining < threshold

\* C12 as stated: every page request made after the budget was seen below the
\* threshold is issued no sooner than the reset time plus the safety margin.
C12_QuotaWait_Original ==
  \A k \in 1..Len(requested) :
    LowBudget(requested[k]) =>
      requested[k].at >= requested[k].quota.reset + buffer

\* C12: the quota is consulted before every page request; a request made after
\* the budget was seen below the threshold is never issued before the reset
\* time, and when the reset time was still ahead at the check it is issued no
\* sooner than the reset time plus the safety margin.
C12_QuotaWait ==
  \A k \in 1..Len(requested) :
    LET r == requested[k]
    IN /\ r.quota.turn = k
       /\ r.quota.checkedAt <= r.at
       /\ LowBudget(r) =>
            /\ r.at >= r.quota.reset
            /\ r.quota.reset > r.quota.checkedAt => r.at >= r.quota.reset + buffer

C12_Witness ==
  /\ Len(requested) = 2
  /\ LowBudget(LastRequest)
  /\ LastRequest.quota.reset = LastRequest.quota.checkedAt + MaxWait
  /\ LastRequest.outcome = "ok"

\* A deadline shorter than the longest wait the provider can ask for.
QuotaDeadline == MaxWait - 1

\* C13: a quota wait never lasts longer than the deadline.
C13_WaitWithinDeadline == quota.slept <= QuotaDeadline

\* ------------------------------------------------------------------ claims on the reports
Returned(fn) == call.fn = fn /\ ret.done

\* C14: the result of calculatePercentageChange has isNoData exactly when both
\* values are 0, isNew exactly when only previous is 0, isInactive exactly when
\* only current is 0, and never two of the flags together.
C14_Classification ==
  Returned("calculatePercentageChange") =>
    LET r == ret.value
        current == call.current
        previous == call.previous
    IN /\ r.isNoData <=> (current = 0 /\ previous = 0)
       /\ r.isNew <=> (current > 0 /\ previous = 0)
       /\ r.isInactive <=> (current = 0 /\ previous > 0)
       /\ Cardinality({f \in {"isNoData", "isNew", "isInactive"} : r[f]}) <= 1

C14_Witness ==
  /\ Returned("calculatePercentageChange")
  /\ call.current = 0 /\ call.previous = 7
  /\ ret.value.isInactive

\* C15: change is 0 when both values are 0; delta is current when only
\* previous is 0; change is -100 and delta -previous when only current is 0;
\* otherwise delta is current - previous and change is a one-decimal number
\* nearest to (current - previous) / previous * 100.
C15_Values ==
  Returned("calculatePercentageChange") =>
    LET r == ret.value
        current == call.current
        previous == call.previous
    IN /\ (current = 0 /\ previous = 0) => r.change = 0 /\ ~ r.infinite
       /\ (current > 0 /\ previous = 0) => r.delta = current
       /\ (current = 0 /\ previous > 0) =>
            r.change = -1000 /\ ~ r.infinite /\ r.delta = 0 - previous
       /\ (current > 0 /\ previous > 0) =>
            /\ r.delta = current - previous
            /\ ~ r.infinite
            /\ 2 * (r.change * previous - (current - previous) * 1000) <= previous
            /\ 2 * ((current - previous) * 1000 - r.change * previous) <= previous
       /\ (current = 150 /\ previous = 100) => r.change = 500

C15_Witness ==
  /\ Returned("calculatePercentageChange")
  /\ call.current = 150 /\ call.previous = 100
  /\ ret.value.change = 500 /\ ret.value.delta = 50

PreviousOnly ==
  DOMAIN call.previousWeekData.users \ DOMAIN call.currentWeekData.users

\* C16 as stated: the compared users are the users of either week, and a user
\* of the previous week only is classified isInactive (in some metric at least).
C16_UnionOfUsers_Original ==
  (Returned("compareWeeks") /\ call.hasPrevious) =>
    /\ DOMAIN ret.value.comparisons.users =
         DOMAIN call.currentWeekData.users \cup DOMAIN call.previousWeekData.users
    /\ \A u \in PreviousOnly :
         \E m \in Metrics : ret.value.comparisons.users[u][m].isInactive

\* C16: the compared users are the users of either week, and a user of the
\* previous week only has every metric compared from its previous value to 0:
\* isInactive where the previous value is positive, isNoData where it is 0.
C16_UnionOfUsers ==
  (Returned("compareWeeks") /\ call.hasPrevious) =>
    /\ DOMAIN ret.value.comparisons.users =
         DOMAIN call.currentWeekData.users \cup DOMAIN call.previousWeekData.users
    /\ \A u \in PreviousOnly : \A m \in Metrics :
         LET x == ret.value.comparisons.users[u][m]
         IN /\ x.current = 0
            /\ x.previous = call.previousWeekData.users[u].weekly[m]
            /\ x.previous > 0 => x.isInactive /\ ~ x.isNoData
            /\ x.previous = 0 => x.isNoData /\ ~ x.isInactive

C16_Witness ==
  /\ Returned("compareWeeks") /\ call.hasPrevious
  /\ PreviousOnly = {"bob"}
  /\ "alice" \in DOMAIN ret.value.comparisons.users
  /\ ret.value.comparisons.users["bob"]["commits"].isInactive
  /\ ret.value.comparisons.users["bob"]["prs"].isNoData

ZeroBaseline(x, current) ==
  /\ x.current = current
  /\ x.previous = 0
  /\ x.isNew <=> current > 0
  /\ x.isNoData <=> current = 0
  /\ ~ x.isInactive

\* C17: compareWeeks(current, null) compares every team metric and every
\* metric of every user of the current week against 0.
C17_ZeroBaseline ==
  (Returned("compareWeeks") /\ ~ call.hasPrevious) =>
    /\ \A m \in Metrics :
         ZeroBaseline(ret.value.comparisons.team[m],
                      getTotalMetric(call.currentWeekData, m))
    /\ DOMAIN ret.value.comparisons.users = DOMAIN call.currentWeekData.users
    /\ \A u \in DOMAIN ret.value.comparisons.users : \A m \in Metrics :
         ZeroBaseline(ret.value.comparisons.users[u][m],
                      call.currentWeekData.users[u].weekly[m])

\* C18: the start of a valid ISO week, given back to getWeekForDate, is in
\* that week; the start is a Monday and the end 6 days later; week 52 of 2025
\* runs from 2025-12-22 to 2025-12-28.
C18_WeekRoundTrip ==
  Returned("getWeekDateRange") =>
    /\ ret.value.back = [year |-> call.year, week |-> call.week]
    /\ ret.value.range.start % 7 = 0
    /\ ret.value.range.end = ret.value.range.start + 6
    /\ (call.year = 2025 /\ call.week = 52) =>
         /\ ret.value.range.start = dayNumber(2025, 12, 22)
         /\ ret.value.range.end = dayNumber(2025, 12, 28)

\* C19: getPreviousWeek gives the ISO week of the day 7 days before the start
\* of the week: (year, week - 1), and for week 1 the last week of year - 1.
C19_PreviousWeek ==
  Returned("getPreviousWeek") =>
    LET before == getWeekDateRange(call.year, call.week).start - 7
    IN ret.value = [year |-> getISOWeekYear(before), week |-> getISOWeek(before)]

Counters ==
  {"commits", "prs", "linesAdded", "linesDeleted", "reviewsGiven",
   "reviewCommentsGiven", "uniquePRsReviewed"}

\* C20: the breakdown is commits*2, prs*5, reviewsGiven*5 + uniquePRsReviewed*4
\* + reviewCommentsGiven and the lines changed at 0.01 each but 300 at most;
\* the total is their sum and does not decrease when a counter grows.
C20_ScoreFormula ==
  Returned("calculateContributionScoreBreakdown") =>
    LET d == call.data
        r == ret.value
        lines == d.linesAdded + d.linesDeleted
    IN /\ r.commits = 200 * d.commits
       /\ r.prs = 500 * d.prs
       /\ r.reviews = 500 * d.reviewsGiven + 400 * d.uniquePRsReviewed
                        + 100 * d.reviewCommentsGiven
       /\ r.code = IF lines <= 30000 THEN lines ELSE 30000
       /\ r.code <= 30000
       /\ r.total = r.commits + r.prs + r.reviews + r.code
       /\ \A f \in Counters :
            calculateContributionScoreBreakdown([d EXCEPT ![f] = @ + 1]).total
              >= r.total

C20_Witness ==
  /\ Returned("calculateContributionScoreBreakdown")
  /\ call.data.linesAdded = 50000
  /\ ret.value.code = 30000

\* C29: every week that validateAndParseWeek returns is a real ISO week: the
\* week of the first day of its date range is that week again (read in a time
\* zone at or ahead of UTC); 'last' during ISO week 1 gives the last week of
\* the year before, as getPreviousWeek does; a YYYY-53 text is accepted only
\* for a year of 53 weeks.
C29_AcceptedWeekIsReal ==
  (Returned("validateAndParseWeek") /\ ~ ret.value.threw) =>
    LET year == ret.value.year
        week == ret.value.week
        current == getCurrentWeek(call.today)
    IN /\ getWeekForDate(getWeekDateRange(year, week).start, 0)
            = [year |-> year, week |-> week]
       /\ (call.weekSpec.kind = "last" /\ current.week = 1) =>
            /\ week = weeksInYear(current.year - 1)
            /\ [year |-> year, week |-> week]
                 = getPreviousWeek(current.year, current.week)
       /\ (call.weekSpec.kind = "iso" /\ call.weekSpec.week = 53) =>
            weeksInYear(call.weekSpec.year) = 53

\* ------------------------------------------------------------------ claims on the storage functions
\* C21: merging A then B into E and merging B then A into E give the same
\* users, with the same daily entries and weekly totals, and the same set of
\* repositories.
C21_MergesCommute ==
  Returned("mergeWithExisting") =>
    /\ ret.value.ab.users = ret.value.ba.users
    /\ Range(ret.value.ab.repositories) = Range(ret.value.ba.repositories)

\* What a record* call adds to the counters of the day and of the repository.
RecordDelta ==
  IF call.fn = "addCommitToData"
  THEN [ZeroMetrics EXCEPT !.commits = 1, !.linesAdded = call.linesAdded,
                           !.linesDeleted = call.linesDeleted]
  ELSE IF call.fn = "addPRToData" THEN [ZeroMetrics EXCEPT !.prs = 1]
  ELSE IF call.fn = "addReviewToData"
  THEN [ZeroMetrics EXCEPT !.reviewsGiven = call.count]
  ELSE IF call.fn = "addReviewCommentsToData"
  THEN [ZeroMetrics EXCEPT !.reviewCommentsGiven = call.count]
  ELSE [ZeroMetrics EXCEPT !.discussionCommentsGiven = call.count]

Plus(metrics, delta) == [f \in Fields |-> metrics[f] + delta[f]]

\* C25: a record* call creates the missing user and date entries zeroed, adds
\* its amounts to the counters of that user and date and, when a repository is
\* given, the same amounts to the metrics of that repository; every other
\* user, date, field and repository is as before.
C25_RecordEffectAndFrame ==
  (call.fn \in RecordFns /\ ret.done) =>
    LET before == call.data
        after == ret.value
        u == call.username
        d == call.date
        repo == call.repository
        dayBefore == IF HasDay(before, u, d) THEN before.users[u].daily[d]
                     ELSE ZeroMetrics
    IN /\ DOMAIN after.users = DOMAIN before.users \cup {u}
       /\ \A v \in DOMAIN before.users \ {u} : after.users[v] = before.users[v]
       /\ DOMAIN after.users[u].daily =
            (IF u \in DOMAIN before.users THEN DOMAIN before.users[u].daily ELSE {})
            \cup {d}
       /\ \A e \in DOMAIN after.users[u].daily \ {d} :
            after.users[u].daily[e] = before.users[u].daily[e]
       /\ after.users[u].daily[d] = Plus(dayBefore, RecordDelta)
       /\ after.users[u].weekly =
            (IF u \in DOMAIN before.users THEN before.users[u].weekly
             ELSE ZeroMetrics)
       /\ IF repo = NoRepo
          THEN after.repositoryMetrics = before.repositoryMetrics
          ELSE /\ DOMAIN after.repositoryMetrics =
                    DOMAIN before.repositoryMetrics \cup {repo}
               /\ \A r \in DOMAIN before.repositoryMetrics \ {repo} :
                    after.repositoryMetrics[r] = before.repositoryMetrics[r]
               /\ after.repositoryMetrics[repo] =
                    Plus(IF repo \in DOMAIN before.repositoryMetrics
                         THEN before.repositoryMetrics[repo] ELSE ZeroMetrics,
                         RecordDelta)
       /\ after.week = before.week
       /\ after.weekStart = before.weekStart
       /\ after.weekEnd = before.weekEnd
       /\ after.generatedAt = before.generatedAt
       /\ after.repositories = before.repositories

C25_Witness ==
  /\ Returned("addCommitToData")
  /\ call.repository \in DOMAIN call.data.repositoryMetrics
  /\ call.linesAdded > 0
  /\ "alice" \in DOMAIN call.data.users
  /\ ~ HasDay(call.data, call.username, call.date)

NoActivityOn(data, d) ==
  \A u \in DOMAIN data.users :
    HasDay(data, u, d) =>
      /\ data.users[u].daily[d].commits = 0
      /\ data.users[u].daily[d].prs = 0
      /\ data.users[u].daily[d].linesAdded = 0
      /\ data.users[u].daily[d].linesDeleted = 0

\* C26: getMissingDates returns, in the order of the dates given, exactly
\* the dates on which no user has commits, prs, linesAdded or linesDeleted
\* above zero; review-only and all-zero entries do not count as activity.
C26_MissingDateRule ==
  Returned("getMissingDates") =>
    /\ Range(ret.value) =
         {d \in Range(call.allDatesInWeek) : NoActivityOn(call.data, d)}
    /\ \A i, j \in DOMAIN ret.value : i < j => ret.value[i] < ret.value[j]

C26_Witness ==
  /\ Returned("getMissingDates")
  /\ \E d \in Range(ret.value) :
       /\ HasDay(call.data, "alice", d)
       /\ call.data.users["alice"].daily[d].reviewsGiven > 0
  /\ \E d \in Range(ret.value) :
       /\ HasDay(call.data, "alice", d)
       /\ call.data.users["alice"].daily[d] = ZeroMetrics
  /\ \E d \in Range(call.allDatesInWeek) : d \notin Range(ret.value)

\* ------------------------------------------------------------------ claims on concurrent runs
\* The (user, date) pairs that have a daily entry in a snapshot.
DayKeys(data) ==
  {ud \in (DOMAIN data.users) \X (Range(getAllDatesInWeek) \cup {AfterWeek}) :
     ud[2] \in DOMAIN data.users[ud[1]].daily}

\* C22: when two runs for the same week have both ended, the week file holds
\* every (user, date) entry that either run saved.
C22_NoLostUpdate ==
  (\A p \in Procs : procs[p].pc \in {"saved", "returned"}) =>
    \A p \in Procs :
      procs[p].pc = "saved" => DayKeys(procs[p].weekData) \subseteq DayKeys(disk.data)

\* ------------------------------------------------------------------ claims on the content of a run
FirstTimeRunSaved ==
  /\ pc = "postSave"
  /\ obs.atStart.state = "absent"
  /\ obs.failedRepos = {}

\* C23: after a first-time run with all fetches successful, the daily commits
\* of a user on a date is the number of non-merge commits the fetch returned
\* for them, the lines are the sums of those commits, and weekly.commits is
\* the total over the week.
C23_CommitCounts ==
  FirstTimeRunSaved =>
    \A u \in Users :
      /\ \A d \in Range(getAllDatesInWeek) :
           LET stats == aggregateCommitStats(run.commits, u, d)
           IN stats.commits > 0 =>
                /\ HasDay(disk.data, u, d)
                /\ disk.data.users[u].daily[d].commits = stats.commits
                /\ disk.data.users[u].daily[d].linesAdded = stats.linesAdded
                /\ disk.data.users[u].daily[d].linesDeleted = stats.linesDeleted
      /\ u \in DOMAIN disk.data.users =>
           disk.data.users[u].weekly.commits =
             Len(SelectSeq(run.commits, LAMBDA c : extractUsername(c) = u))

\* C28: every date key of every daily map of a persisted snapshot is one of
\* the dates of the week.
C28_DatesInsideWeek ==
  disk.state = "json" =>
    \A u \in DOMAIN disk.data.users :
      DOMAIN disk.data.users[u].daily \subseteq Range(getAllDatesInWeek)

\* The (user, date) pairs of the week for which the provider holds a commit
\* that is not a merge, or a pull request.
ProvidedDays ==
  {<<extractUsername(c), c.date>> : c \in {x \in DOMAIN provider.commits : x.parents = 1}}
  \cup {<<pr.author, pr.createdAt>> :
          pr \in {x \in DOMAIN provider.prs : x.createdAt # AfterWeek}}

\* A run without forceRefresh has fetched from every repository, saved and
\* returned, after a first run that saved and returned with exactly one
\* repository failed.
RecoveryRunEnded ==
  /\ pc = "returned" /\ runs = 2
  /\ ~ run.forceRefresh /\ obs.saved /\ obs.failedRepos = {}
  /\ prev.oneRepoFailed
  /\ prev.file.state = "json"

\* C30: after a run in which one repository failed, a later run without
\* forceRefresh whose fetches all succeed leaves a daily entry with activity
\* for every (user, date) of the week that has a commit or a pull request at
\* the provider.
C30_RecoveryAfterFailure ==
  RecoveryRunEnded =>
    \A ud \in ProvidedDays :
      /\ HasDay(disk.data, ud[1], ud[2])
      /\ LET dayData == disk.data.users[ud[1]].daily[ud[2]]
         IN dayData.commits > 0 \/ dayData.prs > 0
            \/ dayData.linesAdded > 0 \/ dayData.linesDeleted > 0

\* ------------------------------------------------------------------ claims on the backfill
\* The weeks of the list whose call threw, in the order of the list.
RECURSIVE FailedWeeks(_, _)
FailedWeeks(weeks, outcomes) ==
  IF weeks = <<>> \/ outcomes = <<>> THEN <<>>
  ELSE (IF Head(outcomes) = "threw" THEN <<Head(weeks)>> ELSE <<>>)
       \o FailedWeeks(Tail(weeks), Tail(outcomes))

\* C24: processBackfill calls the fetch function once per selected week, in
\* the listed order, also after a failure; when it returns every week has
\* been attempted, successful + failed is the number of selected weeks and
\* errors has exactly one entry per failed week.
C24_BackfillContinues ==
  /\ Len(backfill.attempted) <= Len(backfill.selectedWeeks)
  /\ backfill.attempted = SubSeq(backfill.selectedWeeks, 1, Len(backfill.attempted))
  /\ backfill.pc = "returned" =>
       /\ backfill.attempted = backfill.selectedWeeks
       /\ backfill.results.successful + backfill.results.failed
            = Len(backfill.selectedWeeks)
       /\ backfill.results.errors
            = FailedWeeks(backfill.selectedWeeks, backfill.outcomes)
       /\ Len(backfill.results.errors) = backfill.results.failed

C24_Witness ==
  /\ backfill.pc = "returned"
  /\ Len(backfill.selectedWeeks) = MaxWeeks
  /\ backfill.outcomes[1] = "threw"
  /\ backfill.outcomes[Len(backfill.outcomes)] = "returned"

\* ------------------------------------------------------------------ claims on objects in memory
\* The objects reachable from the object at address a.
RECURSIVE Reach(_, _)
Reach(cells, a) ==
  {a} \cup UNION {Reach(cells, cells[a].refs[k]) : k \in DOMAIN cells[a].refs}

ArgumentCells ==
  Reach(heap.cells, heap.existingData) \cup Reach(heap.cells, heap.newData)

\* C27: mergeWithExisting leaves both arguments as they were, the object it
\* returns has no object in common with either argument, and a record*
\* function or calculateWeeklyTotals applied to the result afterwards changes
\* neither argument. The result holds the merged values.
C27_MergeByValue ==
  heap.pc \in {"merged", "changed", "totalled"} =>
    /\ \A a \in ArgumentCells : heap.cells[a] = heap.before[a]
    /\ Reach(heap.cells, heap.merged) \cap ArgumentCells = {}
    /\ heap.pc = "merged" =>
         loadSnapshot(heap.cells, heap.merged) =
           mergeWithExisting(loadSnapshot(heap.before, heap.existingData),
                             loadSnapshot(heap.before, heap.newData), 1)

\* A record* function has changed, in the result, a day that the merge took
\* from the second argument.
C27_Witness ==
  /\ heap.pc = "changed"
  /\ heap.existingData # heap.newData
  /\ \E u \in Users, d \in Range(getAllDatesInWeek) :
       LET result == loadSnapshot(heap.cells, heap.merged)
           existing == loadSnapshot(heap.cells, heap.existingData)
           fresh == loadSnapshot(heap.cells, heap.newData)
       IN /\ HasDay(fresh, u, d)
          /\ ~ HasDay(existing, u, d)
          /\ result.users[u].daily[d] # fresh.users[u].daily[d]

====
